---- MODULE Spec2Model ----
(***************************************************************************)
(* A model of the snowflake-war-room tool-calling agents                    *)
(* (src/utils/agent.py) over the tool registry (src/utils/tools.py) and     *)
(* the dataset bundle built by src/utils/data_loader.py.                    *)
(*                                                                          *)
(* Text is modelled by TLA+ strings: Len, SubSeq, \o, Head and Tail act on  *)
(* them character by character, as Python's len, slicing and + do.          *)
(***************************************************************************)
EXTENDS Integers, Sequences, FiniteSets, TLC

(***************************************************************************)
(* Python string primitives used by the code.                               *)
(***************************************************************************)

\* s.startswith(p)
StartsWith(s, p) == Len(s) >= Len(p) /\ SubSeq(s, 1, Len(p)) = p

\* s[:n]
Prefix(s, n) == IF Len(s) <= n THEN s ELSE SubSeq(s, 1, n)

\* s.replace(old, "") for a non-empty old: every occurrence is removed, left to right
RECURSIVE Remove(_, _)
Remove(s, old) ==
    IF Len(s) < Len(old) THEN s
    ELSE IF StartsWith(s, old) THEN Remove(SubSeq(s, Len(old) + 1, Len(s)), old)
    ELSE SubSeq(s, 1, 1) \o Remove(Tail(s), old)

\* sep.join(parts)
RECURSIVE Join(_, _)
Join(sep, parts) ==
    IF parts = <<>> THEN ""
    ELSE IF Len(parts) = 1 THEN parts[1]
    ELSE parts[1] \o sep \o Join(sep, Tail(parts))

\* "x" * n
RECURSIVE Repeat(_, _)
Repeat(c, n) ==
    IF n <= 0 THEN ""
    ELSE IF n = 1 THEN c
    ELSE LET half == Repeat(c, n \div 2)
         IN half \o half \o (IF n % 2 = 1 THEN c ELSE "")

\* [f(x) for x in seq if keep(x)] is written SelectSeq and a map
Map(f(_), seq) == [i \in 1..Len(seq) |-> f(seq[i])]

\* dict.get(key, default)
Get(dict, key, default) == IF key \in DOMAIN dict THEN dict[key] ELSE default

NL == "\n"

\* str.upper(), letter by letter
UpperChar(c) ==
    CASE c = "a" -> "A" [] c = "b" -> "B" [] c = "c" -> "C" [] c = "d" -> "D"
      [] c = "e" -> "E" [] c = "f" -> "F" [] c = "g" -> "G" [] c = "h" -> "H"
      [] c = "i" -> "I" [] c = "j" -> "J" [] c = "k" -> "K" [] c = "l" -> "L"
      [] c = "m" -> "M" [] c = "n" -> "N" [] c = "o" -> "O" [] c = "p" -> "P"
      [] c = "q" -> "Q" [] c = "r" -> "R" [] c = "s" -> "S" [] c = "t" -> "T"
      [] c = "u" -> "U" [] c = "v" -> "V" [] c = "w" -> "W" [] c = "x" -> "X"
      [] c = "y" -> "Y" [] c = "z" -> "Z" [] OTHER -> c

RECURSIVE Upper(_)
Upper(s) ==
    IF s = "" THEN ""
    ELSE IF Len(s) = 1 THEN UpperChar(s)
    ELSE LET mid == Len(s) \div 2
         IN Upper(SubSeq(s, 1, mid)) \o Upper(SubSeq(s, mid + 1, Len(s)))

\* sub in s
Contains(s, sub) ==
    \E i \in 0..(Len(s) - Len(sub)) : SubSeq(s, i + 1, i + Len(sub)) = sub

\* Series.str.contains(keyword, case=False, na=False), for a keyword of letters
\* and digits (a keyword holding regular-expression operators is not modelled)
StrContains(text, keyword) == Contains(Upper(text), Upper(keyword))

\* s.find(sub) + 1 for a non-empty sub: the position of the first occurrence, 0 if none
Find(s, sub) ==
    IF Contains(s, sub)
    THEN CHOOSE i \in 1..(Len(s) - Len(sub) + 1) :
             /\ SubSeq(s, i, i + Len(sub) - 1) = sub
             /\ \A j \in 1..(i - 1) : SubSeq(s, j, j + Len(sub) - 1) # sub
    ELSE 0

\* s.split(sep) for a non-empty sep; re.split(sep, s) for a sep without
\* regular-expression operators
RECURSIVE Split(_, _)
Split(s, sep) ==
    IF ~Contains(s, sep) THEN <<s>>
    ELSE <<SubSeq(s, 1, Find(s, sep) - 1)>>
         \o Split(SubSeq(s, Find(s, sep) + Len(sep), Len(s)), sep)

\* s.split(sep, 1)[1] for an s that holds sep
AfterFirst(s, sep) == SubSeq(s, Find(s, sep) + Len(sep), Len(s))

\* the characters str.strip() removes, as far as the texts here hold them
Whitespace == {" ", "\n", "\t", "\r"}

\* s.lstrip(), s.rstrip(), s.strip()
RECURSIVE LStrip(_)
LStrip(s) ==
    IF s = "" THEN ""
    ELSE IF SubSeq(s, 1, 1) \in Whitespace THEN LStrip(SubSeq(s, 2, Len(s)))
    ELSE s

RECURSIVE RStrip(_)
RStrip(s) ==
    IF s = "" THEN ""
    ELSE IF SubSeq(s, Len(s), Len(s)) \in Whitespace THEN RStrip(SubSeq(s, 1, Len(s) - 1))
    ELSE s

Strip(s) == RStrip(LStrip(s))

\* DataFrame.head(n) and DataFrame.tail(n) for n >= 0
DfHead(df, n) == IF Len(df) <= n THEN df ELSE SubSeq(df, 1, n)
DfTail(df, n) == IF Len(df) <= n THEN df ELSE SubSeq(df, Len(df) - n + 1, Len(df))

(***************************************************************************)
(* The dataset bundle: DataLoader.load_all puts a table under its key only  *)
(* when its file exists, so a bundle is a function from the keys that are   *)
(* present to tables, and a table is a sequence of rows.                    *)
(***************************************************************************)

\* the outcome of a call: a returned value, or an exception leaving the callee
Return(v, tables) == [raised |-> FALSE, value |-> v, reads |-> tables]
Raise(e, tables) == [raised |-> TRUE, value |-> e, reads |-> tables]

\* self.data[key]
HasTable(d, key) == key \in DOMAIN d

\* DataTools._search_transcripts
_search_transcripts(d, keyword, company, limit) ==
    IF ~HasTable(d, "earnings_transcripts") THEN Raise("KeyError", {})
    ELSE
      LET df0 == d["earnings_transcripts"]
          df1 == IF company # "all"
                 THEN SelectSeq(df0, LAMBDA r : r.TICKER = Upper(company))
                 ELSE df0
          df2 == IF keyword # ""
                 THEN SelectSeq(df1, LAMBDA r : StrContains(r.SYNOPSIS, keyword))
                 ELSE df1
          df3 == DfHead(df2, limit)
          synopsis(r) == IF r.SYNOPSIS # "" THEN Prefix(r.SYNOPSIS, 500) ELSE "No synopsis"
          line(r) == "[" \o r.TICKER \o "] " \o r.EVENT_TYPE \o " (" \o r.EVENT_DATE
                     \o "):\n" \o synopsis(r) \o "\n"
      IN IF df3 = <<>>
         THEN Return("No transcripts found for keyword '" \o keyword
                     \o "' and company '" \o company \o "'", {"earnings_transcripts"})
         ELSE Return("TRANSCRIPT SEARCH RESULTS:\n" \o Join("\n---\n", Map(line, df3)),
                     {"earnings_transcripts"})

\* DataTools._get_analyst_ratings
_get_analyst_ratings(d, company) ==
    IF ~HasTable(d, "analyst_ratings") THEN Raise("KeyError", {})
    ELSE
      LET df0 == d["analyst_ratings"]
          df1 == IF company # "all"
                 THEN SelectSeq(df0, LAMBDA r : r.TICKER = Upper(company))
                 ELSE df0
          line(r) == "- " \o r.ANALYST_FIRM \o ": " \o r.RATING \o " (PT $"
                     \o r.PRICE_TARGET \o ") - \"" \o r.NOTES \o "\""
      IN IF df1 = <<>>
         THEN Return("No analyst ratings found for " \o company, {"analyst_ratings"})
         ELSE Return("ANALYST RATINGS FOR " \o company \o ":\n" \o Join("\n", Map(line, df1)),
                     {"analyst_ratings"})

\* DataTools._get_competitor_news
_get_competitor_news(d, ticker) ==
    IF ~HasTable(d, "news_snippets") THEN Raise("KeyError", {})
    ELSE
      LET df0 == d["news_snippets"]
          df1 == IF ticker # "all"
                 THEN SelectSeq(df0, LAMBDA r : r.TICKER = Upper(ticker))
                 ELSE df0
          summary(r) == IF r.SUMMARY # "" THEN Prefix(r.SUMMARY, 200) ELSE ""
          line(r) == "[" \o r.TICKER \o "] " \o r.HEADLINE \o ": " \o summary(r)
      IN IF df1 = <<>>
         THEN Return("No news found for " \o ticker, {"news_snippets"})
         ELSE Return("COMPETITOR NEWS:\n" \o Join("\n\n", Map(line, df1)), {"news_snippets"})

\* _get_sec_filings without the df.empty branch: no rows give the bare heading
_get_sec_filings_no_empty_branch(d, filing_type, limit) ==
    IF ~HasTable(d, "sec_filings") THEN Raise("KeyError", {})
    ELSE
      LET df0 == d["sec_filings"]
          df1 == IF filing_type # "all"
                 THEN SelectSeq(df0, LAMBDA r : r.FILING_TYPE = filing_type)
                 ELSE df0
          df2 == DfHead(df1, limit)
          line(r) == "- " \o r.FILING_TYPE \o " filed " \o r.FILING_DATE
      IN Return("SEC FILINGS:\n" \o Join("\n", Map(line, df2)), {"sec_filings"})

\* DataTools._get_sec_filings
_get_sec_filings(d, filing_type, limit) ==
    IF ~HasTable(d, "sec_filings") THEN Raise("KeyError", {})
    ELSE
      LET df0 == d["sec_filings"]
          df1 == IF filing_type # "all"
                 THEN SelectSeq(df0, LAMBDA r : r.FILING_TYPE = filing_type)
                 ELSE df0
          df2 == DfHead(df1, limit)
          line(r) == "- " \o r.FILING_TYPE \o " filed " \o r.FILING_DATE
      IN IF df2 = <<>>
         THEN Return("No SEC filings found for type '" \o filing_type \o "'", {"sec_filings"})
         ELSE Return("SEC FILINGS:\n" \o Join("\n", Map(line, df2)), {"sec_filings"})

\* DataTools._get_press_releases
_get_press_releases(d, keyword, limit) ==
    IF ~HasTable(d, "press_releases") THEN Raise("KeyError", {})
    ELSE
      LET df0 == d["press_releases"]
          df1 == IF keyword # ""
                 THEN SelectSeq(df0, LAMBDA r : StrContains(r.TITLE, keyword))
                 ELSE df0
          df2 == DfHead(df1, limit)
          synopsis(r) == IF r.SYNOPSIS # "" THEN Prefix(r.SYNOPSIS, 200) ELSE ""
          line(r) == "[" \o r.RELEASE_DATE \o "] " \o r.TITLE \o ": " \o synopsis(r)
      IN IF df2 = <<>>
         THEN Return("No press releases found"
                     \o (IF keyword # "" THEN " for keyword '" \o keyword \o "'" ELSE ""),
                     {"press_releases"})
         ELSE Return("PRESS RELEASES:\n" \o Join("\n\n", Map(line, df2)), {"press_releases"})

(***************************************************************************)
(* Numbers.  A metric cell is <<v>> for the whole number v and <<>> for a   *)
(* missing value (NaN).  A quotient is kept exact as a pair of integers     *)
(* and compared by cross-multiplication.                                    *)
(***************************************************************************)
NaN == <<>>
IsNa(c) == c = <<>>
Abs(x) == IF x < 0 THEN -x ELSE x

\* str() of a cell, as an f-string prints it
CellText(c) == IF IsNa(c) THEN "nan" ELSE ToString(c[1])

\* round(num / den * 10), ties to the even neighbour, for den # 0
RoundTenths(num, den) ==
    LET n == IF den < 0 THEN -num ELSE num
        dd == Abs(den)
        a == Abs(10 * n)
        q == a \div dd
        r == a % dd
        up == (2 * r > dd) \/ (2 * r = dd /\ q % 2 = 1)
        m == IF up THEN q + 1 ELSE q
    IN IF n < 0 THEN -m ELSE m

\* f"{x:.1f}" of a number given in tenths
FormatTenths(t) ==
    (IF t < 0 THEN "-" ELSE "") \o ToString(Abs(t) \div 10) \o "." \o ToString(Abs(t) % 10)

\* f"{x:.0f}" of num / den >= 0, ties to the even neighbour
FormatWhole(num, den) ==
    LET q == num \div den
        r == num % den
        up == (2 * r > den) \/ (2 * r = den /\ q % 2 = 1)
    IN ToString(IF up THEN q + 1 ELSE q)

(***************************************************************************)
(* MetricsEngine (src/utils/metrics_engine.py)                              *)
(***************************************************************************)
METRICS == <<"PRODUCT_REVENUE_M", "TOTAL_REVENUE_M", "RPO_M", "NRR_PERCENT",
             "CUSTOMERS_1M_PLUS", "FCF_IN_MILLIONS", "GROSS_MARGIN_PERCENT">>

\* col.replace('_', ' ').title() for the monitored columns
Title(col) ==
    CASE col = "PRODUCT_REVENUE_M" -> "Product Revenue M"
      [] col = "TOTAL_REVENUE_M" -> "Total Revenue M"
      [] col = "RPO_M" -> "Rpo M"
      [] col = "NRR_PERCENT" -> "Nrr Percent"
      [] col = "CUSTOMERS_1M_PLUS" -> "Customers 1M Plus"
      [] col = "FCF_IN_MILLIONS" -> "Fcf In Millions"
      [] col = "GROSS_MARGIN_PERCENT" -> "Gross Margin Percent"
      [] OTHER -> col

\* SortDesc left out: the frame is taken in the order it came in
SortDesc_unsorted(df) == df

\* DataFrame.sort_values('PERIOD_END_DATE', ascending=False): a new frame, by insertion
RECURSIVE SortDesc(_)
SortDesc(df) ==
    IF df = <<>> THEN <<>>
    ELSE LET rest == SortDesc(Tail(df))
             x == Head(df)
             before == SelectSeq(rest, LAMBDA r : r.PERIOD_END_DATE > x.PERIOD_END_DATE)
             after == SelectSeq(rest, LAMBDA r : r.PERIOD_END_DATE <= x.PERIOD_END_DATE)
         IN before \o <<x>> \o after

\* df.columns of a frame with at least one row
Columns(df) == IF df = <<>> THEN {} ELSE DOMAIN df[1]

\* f"Q{current['FISCAL_QUARTER']} FY{current['FISCAL_YEAR']}"
QuarterLabel(row) == "Q" \o ToString(row.FISCAL_QUARTER) \o " FY" \o ToString(row.FISCAL_YEAR)

RECURSIVE SumCells(_)
SumCells(cells) == IF cells = <<>> THEN 0 ELSE Head(cells)[1] + SumCells(Tail(cells))

\* the columns the quarter label of a finding is read from
FISCAL_COLUMNS == {"FISCAL_QUARTER", "FISCAL_YEAR"}

\* MetricsEngine._detect_anomalies: current['FISCAL_QUARTER'] and
\* current['FISCAL_YEAR'] are read once there are 5 rows, before any column is
\* looked for; a KeyError when one of them is not a column
_detect_anomalies_raises(snow_df) ==
    Len(snow_df) >= 5 /\ ~(FISCAL_COLUMNS \subseteq Columns(snow_df))

\* MetricsEngine._detect_competitive_gaps: iloc[0]['PRODUCT_REVENUE_M'] is read
\* once there are 5 rows; a KeyError when it is not a column
_detect_competitive_gaps_raises(snow_df) ==
    Len(snow_df) >= 5 /\ "PRODUCT_REVENUE_M" \notin Columns(snow_df)

\* _detect_anomalies with deviation <= -0.20 for deviation < -0.20
_detect_anomalies_inclusive(snow_df) ==
    IF Len(snow_df) < 5 THEN <<>>
    ELSE
      LET current == snow_df[1]
          finding(col) ==
            IF col \notin Columns(snow_df) THEN <<>>
            ELSE
              LET current_val == current[col]
                  window == SelectSeq([i \in 1..4 |-> snow_df[i + 1][col]],
                                      LAMBDA c : ~IsNa(c))
                  cnt == Len(window)
                  sum == SumCells(window)
                  \* deviation = (current_val - sum / cnt) / |sum / cnt| = dnum / dden
                  dnum == cnt * current_val[1] - sum
                  dden == Abs(sum)
              IN IF IsNa(current_val) \/ cnt = 0 \/ sum = 0 THEN <<>>
                 ELSE IF 5 * dnum <= -dden
                 THEN << [metric |-> Title(col),
                          current |-> current_val[1],
                          moving_avg |-> RoundTenths(sum, cnt),
                          deviation_pct |-> RoundTenths(100 * dnum, dden),
                          threat |-> IF 10 * dnum < -3 * dden THEN "HIGH" ELSE "MEDIUM",
                          description |-> Title(col) \o " is "
                                          \o FormatWhole(100 * Abs(dnum), dden)
                                          \o "% below 4Q average",
                          quarter |-> QuarterLabel(current),
                          source_bucket |-> 1] >>
                 ELSE <<>>
          RECURSIVE each(_)
          each(i) == IF i > Len(METRICS) THEN <<>> ELSE finding(METRICS[i]) \o each(i + 1)
      IN each(1)

\* _detect_anomalies with len(self.snow_df) < 4 for len(self.snow_df) < 5: the slice
\* iloc[1:5] then holds the three quarters there are
_detect_anomalies_min_4(snow_df) ==
    IF Len(snow_df) < 4 THEN <<>>
    ELSE
      LET current == snow_df[1]
          finding(col) ==
            IF col \notin Columns(snow_df) THEN <<>>
            ELSE
              LET current_val == current[col]
                  window == SelectSeq([i \in 1..(IF Len(snow_df) < 5 THEN Len(snow_df) - 1 ELSE 4) |-> snow_df[i + 1][col]],
                                      LAMBDA c : ~IsNa(c))
                  cnt == Len(window)
                  sum == SumCells(window)
                  \* deviation = (current_val - sum / cnt) / |sum / cnt| = dnum / dden
                  dnum == cnt * current_val[1] - sum
                  dden == Abs(sum)
              IN IF IsNa(current_val) \/ cnt = 0 \/ sum = 0 THEN <<>>
                 ELSE IF 5 * dnum < -dden
                 THEN << [metric |-> Title(col),
                          current |-> current_val[1],
                          moving_avg |-> RoundTenths(sum, cnt),
                          deviation_pct |-> RoundTenths(100 * dnum, dden),
                          threat |-> IF 10 * dnum < -3 * dden THEN "HIGH" ELSE "MEDIUM",
                          description |-> Title(col) \o " is "
                                          \o FormatWhole(100 * Abs(dnum), dden)
                                          \o "% below 4Q average",
                          quarter |-> QuarterLabel(current),
                          source_bucket |-> 1] >>
                 ELSE <<>>
          RECURSIVE each(_)
          each(i) == IF i > Len(METRICS) THEN <<>> ELSE finding(METRICS[i]) \o each(i + 1)
      IN each(1)

\* MetricsEngine._detect_anomalies
_detect_anomalies(snow_df) ==
    IF Len(snow_df) < 5 THEN <<>>
    ELSE
      LET current == snow_df[1]
          finding(col) ==
            IF col \notin Columns(snow_df) THEN <<>>
            ELSE
              LET current_val == current[col]
                  window == SelectSeq([i \in 1..4 |-> snow_df[i + 1][col]],
                                      LAMBDA c : ~IsNa(c))
                  cnt == Len(window)
                  sum == SumCells(window)
                  \* deviation = (current_val - sum / cnt) / |sum / cnt| = dnum / dden
                  dnum == cnt * current_val[1] - sum
                  dden == Abs(sum)
              IN IF IsNa(current_val) \/ cnt = 0 \/ sum = 0 THEN <<>>
                 ELSE IF 5 * dnum < -dden
                 THEN << [metric |-> Title(col),
                          current |-> current_val[1],
                          moving_avg |-> RoundTenths(sum, cnt),
                          deviation_pct |-> RoundTenths(100 * dnum, dden),
                          threat |-> IF 10 * dnum < -3 * dden THEN "HIGH" ELSE "MEDIUM",
                          description |-> Title(col) \o " is "
                                          \o FormatWhole(100 * Abs(dnum), dden)
                                          \o "% below 4Q average",
                          quarter |-> QuarterLabel(current),
                          source_bucket |-> 1] >>
                 ELSE <<>>
          RECURSIVE each(_)
          each(i) == IF i > Len(METRICS) THEN <<>> ELSE finding(METRICS[i]) \o each(i + 1)
      IN each(1)

\* _detect_nrr_decline with len(self.snow_df) < 5 for len(self.snow_df) < 4: the rule
\* waits for the history the generic deviation rule needs
_detect_nrr_decline_min_5(snow_df) ==
    IF "NRR_PERCENT" \notin Columns(snow_df) \/ Len(snow_df) < 5 THEN Return(<<>>, {})
    ELSE
      LET nrr == [i \in 1..4 |-> snow_df[i]["NRR_PERCENT"]]
          declining == \A i \in 1..3 : nrr[i][1] < nrr[i + 1][1]
          current == snow_df[1]
      IN IF \E i \in 1..4 : IsNa(nrr[i]) THEN Return(<<>>, {})
         ELSE IF ~declining THEN Return(<<>>, {})
         ELSE IF nrr[4][1] = 0 THEN Raise("ZeroDivisionError", {})
         ELSE IF ~(FISCAL_COLUMNS \subseteq Columns(snow_df)) THEN Raise("KeyError", {})
         ELSE Return(<< [metric |-> "Net Revenue Retention",
                         current |-> nrr[1][1],
                         moving_avg |-> 10 * nrr[4][1],
                         deviation_pct |-> RoundTenths(100 * (nrr[1][1] - nrr[4][1]), nrr[4][1]),
                         threat |-> "HIGH",
                         description |-> "NRR declining for 4 quarters: " \o CellText(nrr[4])
                                         \o "% -> " \o CellText(nrr[1]) \o "%",
                         quarter |-> QuarterLabel(current),
                         source_bucket |-> 1] >>, {})

\* MetricsEngine._detect_nrr_decline: the findings it appends, or the ZeroDivisionError
\* of (nrr[0] - nrr[3]) / nrr[3], or the KeyError of the quarter label read after it
_detect_nrr_decline(snow_df) ==
    IF "NRR_PERCENT" \notin Columns(snow_df) \/ Len(snow_df) < 4 THEN Return(<<>>, {})
    ELSE
      LET nrr == [i \in 1..4 |-> snow_df[i]["NRR_PERCENT"]]
          declining == \A i \in 1..3 : nrr[i][1] < nrr[i + 1][1]
          current == snow_df[1]
      IN IF \E i \in 1..4 : IsNa(nrr[i]) THEN Return(<<>>, {})
         ELSE IF ~declining THEN Return(<<>>, {})
         ELSE IF nrr[4][1] = 0 THEN Raise("ZeroDivisionError", {})
         ELSE IF ~(FISCAL_COLUMNS \subseteq Columns(snow_df)) THEN Raise("KeyError", {})
         ELSE Return(<< [metric |-> "Net Revenue Retention",
                         current |-> nrr[1][1],
                         moving_avg |-> 10 * nrr[4][1],
                         deviation_pct |-> RoundTenths(100 * (nrr[1][1] - nrr[4][1]), nrr[4][1]),
                         threat |-> "HIGH",
                         description |-> "NRR declining for 4 quarters: " \o CellText(nrr[4])
                                         \o "% -> " \o CellText(nrr[1]) \o "%",
                         quarter |-> QuarterLabel(current),
                         source_bucket |-> 1] >>, {})

\* the tracked competitors and their peer metric
COMPETITORS == << <<"GOOGL", "CLOUD_REVENUE">>, <<"AMZN", "AWS_REVENUE">> >>

\* _detect_competitive_gaps with return for continue at len(comp_data) < 5: a
\* competitor short of history ends the loop over the competitors
_detect_competitive_gaps_return(snow_df, peer_df) ==
    IF Len(snow_df) < 5 THEN <<>>
    ELSE
      LET snow_current == snow_df[1]["PRODUCT_REVENUE_M"]
          snow_yoy == snow_df[5]["PRODUCT_REVENUE_M"]
          \* snow_growth = 100 * sn / sd
          sn == snow_current[1] - snow_yoy[1]
          sd == snow_yoy[1]
          gapOf(pair) ==
            LET comp_data == SortDesc(SelectSeq(peer_df,
                                 LAMBDA r : r.COMPANY_ID = pair[1] /\ r.METRIC_NAME = pair[2]))
                comp_current == comp_data[1].METRIC_VALUE
                comp_yoy == comp_data[5].METRIC_VALUE
                \* comp_growth = 100 * cn / cd
                cn == comp_current[1] - comp_yoy[1]
                cd == comp_yoy[1]
                \* gap = 100 * (sn * cd - cn * sd) / (sd * cd)
                gn == sn * cd - cn * sd
                gd == sd * cd
            IN IF Len(comp_data) < 5 THEN <<>>
               ELSE IF ~IsNa(comp_yoy) /\ comp_yoy[1] = 0 THEN <<>>
               ELSE IF IsNa(comp_yoy) \/ IsNa(comp_current)
               THEN << [competitor |-> pair[1],
                        snow_growth |-> <<RoundTenths(100 * sn, sd)>>,
                        comp_growth |-> NaN,
                        gap |-> NaN,
                        advantage |-> FALSE] >>
               ELSE << [competitor |-> pair[1],
                        snow_growth |-> <<RoundTenths(100 * sn, sd)>>,
                        comp_growth |-> <<RoundTenths(100 * cn, cd)>>,
                        gap |-> <<RoundTenths(100 * gn, gd)>>,
                        advantage |-> (gn > 0 /\ gd > 0) \/ (gn < 0 /\ gd < 0)] >>
      IN IF IsNa(snow_current) \/ IsNa(snow_yoy) THEN <<>>
         ELSE IF snow_yoy[1] = 0 THEN <<>>
         ELSE IF Len(SelectSeq(peer_df, LAMBDA r : r.COMPANY_ID = COMPETITORS[1][1]
                                  /\ r.METRIC_NAME = COMPETITORS[1][2])) < 5 THEN <<>>
         ELSE gapOf(COMPETITORS[1]) \o gapOf(COMPETITORS[2])

\* MetricsEngine._detect_competitive_gaps
_detect_competitive_gaps(snow_df, peer_df) ==
    IF Len(snow_df) < 5 THEN <<>>
    ELSE
      LET snow_current == snow_df[1]["PRODUCT_REVENUE_M"]
          snow_yoy == snow_df[5]["PRODUCT_REVENUE_M"]
          \* snow_growth = 100 * sn / sd
          sn == snow_current[1] - snow_yoy[1]
          sd == snow_yoy[1]
          gapOf(pair) ==
            LET comp_data == SortDesc(SelectSeq(peer_df,
                                 LAMBDA r : r.COMPANY_ID = pair[1] /\ r.METRIC_NAME = pair[2]))
                comp_current == comp_data[1].METRIC_VALUE
                comp_yoy == comp_data[5].METRIC_VALUE
                \* comp_growth = 100 * cn / cd
                cn == comp_current[1] - comp_yoy[1]
                cd == comp_yoy[1]
                \* gap = 100 * (sn * cd - cn * sd) / (sd * cd)
                gn == sn * cd - cn * sd
                gd == sd * cd
            IN IF Len(comp_data) < 5 THEN <<>>
               ELSE IF ~IsNa(comp_yoy) /\ comp_yoy[1] = 0 THEN <<>>
               ELSE IF IsNa(comp_yoy) \/ IsNa(comp_current)
               THEN << [competitor |-> pair[1],
                        snow_growth |-> <<RoundTenths(100 * sn, sd)>>,
                        comp_growth |-> NaN,
                        gap |-> NaN,
                        advantage |-> FALSE] >>
               ELSE << [competitor |-> pair[1],
                        snow_growth |-> <<RoundTenths(100 * sn, sd)>>,
                        comp_growth |-> <<RoundTenths(100 * cn, cd)>>,
                        gap |-> <<RoundTenths(100 * gn, gd)>>,
                        advantage |-> (gn > 0 /\ gd > 0) \/ (gn < 0 /\ gd < 0)] >>
      IN IF IsNa(snow_current) \/ IsNa(snow_yoy) THEN <<>>
         ELSE IF snow_yoy[1] = 0 THEN <<>>
         ELSE gapOf(COMPETITORS[1]) \o gapOf(COMPETITORS[2])

\* MetricsEngine.__init__ followed by one run_analysis on the new engine
run_analysis(snowflake_metrics, peer_financials) ==
    LET snow_df == SortDesc(snowflake_metrics)
        nrr == _detect_nrr_decline(snow_df)
    IN IF _detect_anomalies_raises(snow_df) THEN Raise("KeyError", {})
       ELSE IF nrr.raised THEN nrr
       ELSE IF _detect_competitive_gaps_raises(snow_df) THEN Raise("KeyError", {})
       ELSE Return([anomalies |-> _detect_anomalies(snow_df) \o nrr.value,
                    competitive_gaps |-> _detect_competitive_gaps(snow_df, peer_financials)],
                   {})

\* f"{x:.1f}" of a cell holding tenths
FormatCell(c) == IF IsNa(c) THEN "nan" ELSE FormatTenths(c[1])

\* DataTools._check_anomalies
_check_anomalies(d) ==
    IF ~HasTable(d, "snowflake_metrics") \/ ~HasTable(d, "peer_financials")
    THEN Raise("KeyError", {})
    ELSE
      LET analysis == run_analysis(d["snowflake_metrics"], d["peer_financials"])
          tables == {"snowflake_metrics", "peer_financials"}
          anomalies == analysis.value.anomalies
          gaps == analysis.value.competitive_gaps
          aline(a) == "- [" \o a.threat \o "] " \o a.metric \o ": " \o a.description \o "\n"
          gline(g) == "- vs " \o g.competitor \o ": SNOW " \o FormatCell(g.snow_growth)
                      \o "% vs " \o FormatCell(g.comp_growth) \o "% ("
                      \o (IF g.advantage THEN "ahead" ELSE "behind") \o ")\n"
      IN IF analysis.raised THEN Raise(analysis.value, tables)
         ELSE Return("DETECTED ANOMALIES:\n"
                     \o (IF anomalies # <<>> THEN Join("", Map(aline, anomalies))
                         ELSE "- No major anomalies detected\n")
                     \o "\nCOMPETITIVE GAPS:\n"
                     \o (IF gaps # <<>> THEN Join("", Map(gline, gaps)) ELSE ""),
                     tables)

\* the columns of the own-company table, in file order
SNOW_COLUMNS == <<"PERIOD_END_DATE", "FISCAL_QUARTER", "FISCAL_YEAR",
                  "PRODUCT_REVENUE_M", "TOTAL_REVENUE_M", "RPO_M", "NRR_PERCENT",
                  "CUSTOMERS_1M_PLUS", "FCF_IN_MILLIONS", "GROSS_MARGIN_PERCENT">>

\* str() of one value of the own-company table
SnowText(row, col) ==
    IF col \in {"PERIOD_END_DATE", "FISCAL_QUARTER", "FISCAL_YEAR"}
    THEN ToString(row[col])
    ELSE IF IsNa(row[col]) THEN "NaN" ELSE ToString(row[col][1])

\* DataFrame.to_string() of the own-company table restricted to cols: the header
\* line and one line per row (the index label and the column padding are left out)
ToStringDF(df, cols) ==
    LET shown == SelectSeq(cols, LAMBDA c : c \in Columns(df))
        line(row) == Join(" ", [i \in 1..Len(shown) |-> SnowText(row, shown[i])])
    IN IF df = <<>> THEN "Empty DataFrame"
       ELSE Join("\n", <<Join(" ", shown)>> \o Map(line, df))

\* DataTools._get_snowflake_metrics
_get_snowflake_metrics(d, metric, quarters) ==
    IF ~HasTable(d, "snowflake_metrics") THEN Raise("KeyError", {})
    ELSE
      LET df == DfTail(d["snowflake_metrics"], quarters)
          cols == CASE metric = "all" -> SNOW_COLUMNS
                    [] metric = "revenue" ->
                         <<"FISCAL_QUARTER", "PRODUCT_REVENUE_M", "TOTAL_REVENUE_M">>
                    [] metric = "nrr" -> <<"FISCAL_QUARTER", "NRR_PERCENT">>
                    [] metric = "rpo" -> <<"FISCAL_QUARTER", "RPO_M">>
                    [] metric = "fcf" -> <<"FISCAL_QUARTER", "FCF_IN_MILLIONS">>
                    [] metric = "margins" -> <<"FISCAL_QUARTER", "GROSS_MARGIN_PERCENT">>
                    [] metric = "customers" -> <<"FISCAL_QUARTER", "CUSTOMERS_1M_PLUS">>
                    [] OTHER -> SNOW_COLUMNS
      IN Return("SNOWFLAKE METRICS (" \o ToString(quarters) \o " quarters):\n"
                \o ToStringDF(df, cols), {"snowflake_metrics"})

\* Series.unique().tolist(): the distinct values in order of first appearance
RECURSIVE Unique(_)
Unique(seq) ==
    IF seq = <<>> THEN <<>>
    ELSE LET init == Unique(SubSeq(seq, 1, Len(seq) - 1))
             last == seq[Len(seq)]
         IN IF \E i \in 1..Len(init) : init[i] = last THEN init ELSE Append(init, last)

\* str() of a list of strings
ListText(seq) == "[" \o Join(", ", [i \in 1..Len(seq) |-> "'" \o seq[i] \o "'"]) \o "]"

\* DataTools._compare_to_competitor
_compare_to_competitor(d, competitor, metric) ==
    IF ~HasTable(d, "peer_financials") \/ ~HasTable(d, "snowflake_metrics")
    THEN Raise("KeyError", {})
    ELSE
      LET peer_df == d["peer_financials"]
          snow_df == d["snowflake_metrics"]
          tables == {"peer_financials", "snowflake_metrics"}
          comp_data == SelectSeq(peer_df, LAMBDA r : r.COMPANY_ID = Upper(competitor))
          field(col) == IF snow_df # <<>> /\ col \in Columns(snow_df)
                        THEN CellText(snow_df[Len(snow_df)][col]) ELSE "N/A"
          line(r) == "- " \o r.METRIC_NAME \o ": " \o CellText(r.METRIC_VALUE) \o " "
                     \o r.METRIC_UNIT \o " (FY" \o ToString(r.FISCAL_YEAR)
                     \o " Q" \o ToString(r.FISCAL_QUARTER) \o ")\n"
      IN IF comp_data = <<>>
         THEN Return("No data found for competitor '" \o competitor
                     \o "'. Available companies: "
                     \o ListText(Unique([i \in 1..Len(peer_df) |-> peer_df[i].COMPANY_ID])),
                     tables)
         ELSE Return("COMPARISON: SNOWFLAKE vs " \o Upper(competitor) \o "\n\n"
                     \o "SNOWFLAKE (latest):\n"
                     \o "- Revenue: $" \o field("TOTAL_REVENUE_M") \o "M\n"
                     \o "- NRR: " \o field("NRR_PERCENT") \o "%\n"
                     \o "\n" \o Upper(competitor) \o " metrics:\n"
                     \o Join("", Map(line, comp_data)),
                     tables)

\* execute_tool with a lookup in place of the final else: an unregistered name raises
execute_tool_unknown_raises(d, tool_name, tool_input) ==
    CASE tool_name = "get_snowflake_metrics" ->
           _get_snowflake_metrics(d, Get(tool_input, "metric", "all"),
                                  Get(tool_input, "quarters", 4))
      [] tool_name = "search_transcripts" ->
           _search_transcripts(d, Get(tool_input, "keyword", ""),
                               Get(tool_input, "company", "all"),
                               Get(tool_input, "limit", 3))
      [] tool_name = "get_analyst_ratings" ->
           _get_analyst_ratings(d, Get(tool_input, "company", "SNOW"))
      [] tool_name = "get_competitor_news" ->
           _get_competitor_news(d, Get(tool_input, "ticker", "all"))
      [] tool_name = "check_anomalies" ->
           _check_anomalies(d)
      [] tool_name = "get_sec_filings" ->
           _get_sec_filings(d, Get(tool_input, "filing_type", "all"),
                            Get(tool_input, "limit", 3))
      [] tool_name = "get_press_releases" ->
           _get_press_releases(d, Get(tool_input, "keyword", ""),
                               Get(tool_input, "limit", 5))
      [] tool_name = "compare_to_competitor" ->
           _compare_to_competitor(d, Get(tool_input, "competitor", ""),
                                  Get(tool_input, "metric", "all"))
      [] tool_name = "generate_questions" ->
           Return("GENERATE_QUESTIONS:" \o Get(tool_input, "findings", ""), {})
      [] OTHER ->
           Raise("KeyError", {})

\* DataTools.execute_tool
execute_tool(d, tool_name, tool_input) ==
    CASE tool_name = "get_snowflake_metrics" ->
           _get_snowflake_metrics(d, Get(tool_input, "metric", "all"),
                                  Get(tool_input, "quarters", 4))
      [] tool_name = "search_transcripts" ->
           _search_transcripts(d, Get(tool_input, "keyword", ""),
                               Get(tool_input, "company", "all"),
                               Get(tool_input, "limit", 3))
      [] tool_name = "get_analyst_ratings" ->
           _get_analyst_ratings(d, Get(tool_input, "company", "SNOW"))
      [] tool_name = "get_competitor_news" ->
           _get_competitor_news(d, Get(tool_input, "ticker", "all"))
      [] tool_name = "check_anomalies" ->
           _check_anomalies(d)
      [] tool_name = "get_sec_filings" ->
           _get_sec_filings(d, Get(tool_input, "filing_type", "all"),
                            Get(tool_input, "limit", 3))
      [] tool_name = "get_press_releases" ->
           _get_press_releases(d, Get(tool_input, "keyword", ""),
                               Get(tool_input, "limit", 5))
      [] tool_name = "compare_to_competitor" ->
           _compare_to_competitor(d, Get(tool_input, "competitor", ""),
                                  Get(tool_input, "metric", "all"))
      [] tool_name = "generate_questions" ->
           Return("GENERATE_QUESTIONS:" \o Get(tool_input, "findings", ""), {})
      [] OTHER ->
           Return("Unknown tool: " \o tool_name, {})

(***************************************************************************)
(* The bundles the model starts from.                                       *)
(***************************************************************************)
SnowRow(date, fq, fy, product, total, rpo, nrr, customers, fcf, margin) ==
    [PERIOD_END_DATE |-> date, FISCAL_QUARTER |-> fq, FISCAL_YEAR |-> fy,
     PRODUCT_REVENUE_M |-> product, TOTAL_REVENUE_M |-> total, RPO_M |-> rpo,
     NRR_PERCENT |-> nrr, CUSTOMERS_1M_PLUS |-> customers,
     FCF_IN_MILLIONS |-> fcf, GROSS_MARGIN_PERCENT |-> margin]

\* six quarters, latest first, as DataLoader.load_all orders them
SnowTable ==
    << SnowRow(20251031, 3, 2026, <<1160>>, <<1210>>, <<6900>>, <<125>>, <<688>>, <<110>>, <<67>>),
       SnowRow(20250731, 2, 2026, <<1090>>, <<1145>>, <<6600>>, <<126>>, <<654>>, <<283>>, <<68>>),
       SnowRow(20250430, 1, 2026, <<997>>, <<1042>>, <<6400>>, <<127>>, <<606>>, <<297>>, <<67>>),
       SnowRow(20250131, 4, 2025, <<943>>, <<987>>, <<6200>>, <<128>>, <<580>>, <<50>>, <<66>>),
       SnowRow(20241031, 3, 2025, <<900>>, <<942>>, <<5700>>, <<127>>, <<542>>, <<78>>, NaN),
       SnowRow(20240731, 2, 2025, <<829>>, <<869>>, <<5200>>, <<128>>, <<510>>, <<59>>, <<67>>) >>

PeerRow(company, metric, value, date, fq, fy) ==
    [COMPANY_ID |-> company, METRIC_NAME |-> metric, METRIC_VALUE |-> value,
     METRIC_UNIT |-> "USD_M", PERIOD_END_DATE |-> date,
     FISCAL_QUARTER |-> fq, FISCAL_YEAR |-> fy]

PeerTable ==
    << PeerRow("GOOGL", "CLOUD_REVENUE", <<9200>>, 20240630, 2, 2024),
       PeerRow("GOOGL", "CLOUD_REVENUE", <<9600>>, 20240930, 3, 2024),
       PeerRow("GOOGL", "CLOUD_REVENUE", <<10300>>, 20241231, 4, 2024),
       PeerRow("GOOGL", "CLOUD_REVENUE", <<11400>>, 20250331, 1, 2025),
       PeerRow("GOOGL", "CLOUD_REVENUE", <<12300>>, 20250630, 2, 2025),
       PeerRow("AMZN", "AWS_REVENUE", <<27500>>, 20250630, 2, 2025),
       PeerRow("AMZN", "AWS_REVENUE", <<30900>>, 20250930, 3, 2025) >>

\* what _search_transcripts puts around the synopsis of the one SNOW transcript
ShortSynopsis == 40
LongSynopsis == 520

TranscriptFrame ==
    "TRANSCRIPT SEARCH RESULTS:\n" \o "[SNOW] Earnings Call (2025-08-27 00:00:00):\n" \o "\n"

\* the synopsis lengths tried: short, a result of exactly 500 and of 501
\* characters, and a synopsis longer than the 500 the tool keeps of it
SynopsisLengths ==
    {ShortSynopsis, 500 - Len(TranscriptFrame), 501 - Len(TranscriptFrame), LongSynopsis}

TranscriptTable(n) ==
    << [TICKER |-> "SNOW", EVENT_TYPE |-> "Earnings Call",
        EVENT_DATE |-> "2025-08-27 00:00:00",
        SYNOPSIS |-> "AI workloads grew. " \o Repeat("x", n - 19)],
       [TICKER |-> "DDOG", EVENT_TYPE |-> "Earnings Call",
        EVENT_DATE |-> "2025-08-07 00:00:00",
        SYNOPSIS |-> "Datadog reports 12% AI-native revenue."] >>

RatingsTable ==
    << [TICKER |-> "SNOW", ANALYST_FIRM |-> "Morgan Stanley", RATING |-> "Overweight",
        PRICE_TARGET |-> "260", NOTES |-> "NRR stabilizing"],
       [TICKER |-> "DDOG", ANALYST_FIRM |-> "Jefferies", RATING |-> "Hold",
        PRICE_TARGET |-> "140", NOTES |-> "Valuation"] >>

NewsTable ==
    << [TICKER |-> "MDB", HEADLINE |-> "MongoDB raises guidance",
        SUMMARY |-> "Atlas growth reaccelerates."] >>

FilingsTable ==
    << [FILING_TYPE |-> "10-Q", FILING_DATE |-> "2025-08-29"],
       [FILING_TYPE |-> "8-K", FILING_DATE |-> "2025-08-27"] >>

PressTable ==
    << [RELEASE_DATE |-> "2025-08-27", TITLE |-> "Snowflake Reports Q2 Results",
        SYNOPSIS |-> "Product revenue of $1.09B."] >>

\* every file present
FullData(n) ==
    [snowflake_metrics |-> SnowTable, peer_financials |-> PeerTable,
     earnings_transcripts |-> TranscriptTable(n), analyst_ratings |-> RatingsTable,
     news_snippets |-> NewsTable, sec_filings |-> FilingsTable,
     press_releases |-> PressTable]

\* only the two metric files present
CoreData == [snowflake_metrics |-> SnowTable, peer_financials |-> PeerTable]

DataSets == {FullData(n) : n \in SynopsisLengths} \cup {CoreData}

(***************************************************************************)
(* The language-model service.  A turn response is a sequence of blocks;    *)
(* the service gives every tool_use block its own identifier.               *)
(***************************************************************************)
Text(t) == [type |-> "text", text |-> t]
Use(name, input) == [type |-> "tool_use", name |-> name, input |-> input]

\* the turn responses the service may give, whichever agent asks
Responses ==
    << <<Text("Nothing further to ask.")>>,
       <<Text("Summary:"), Text("NRR is the weak spot.")>>,
       <<Text("Checking anomalies."), Use("check_anomalies", <<>>)>>,
       <<Use("search_transcripts", [company |-> "snow", limit |-> 2]),
         Use("lookup_stock", [symbol |-> "SNOW"])>>,
       <<Use("get_snowflake_metrics", [metric |-> "nrr", quarters |-> 2]),
         Use("compare_to_competitor", [competitor |-> "googl"]),
         Use("generate_defense", [talking_points |-> "RPO up 33% YoY"])>>,
       <<Use("get_analyst_ratings", <<>>),
         Use("generate_questions", [findings |-> "FCF fell; see GENERATE_QUESTIONS: NRR"]),
         Use("get_press_releases", [keyword |-> "results"])>>,
       <<Use("generate_questions", <<>>)>>,
       <<Use("generate_defense", <<>>), Use("get_sec_filings", [filing_type |-> "10-K"])>> >>

\* the block identifiers of the response to turn call number n
WithIds(blocks, n) ==
    [i \in 1..Len(blocks) |->
        IF blocks[i].type = "tool_use"
        THEN [type |-> "tool_use", id |-> "toolu_" \o ToString(n) \o "_" \o ToString(i),
              name |-> blocks[i].name, input |-> blocks[i].input]
        ELSE blocks[i]]

\* the texts the synthesis call may return
SynthesisTexts == {"QUESTION: Why did FCF fall? (Latest Filing)\nTHREAT_LEVEL: HIGH",
                   "**Key Talking Points:**\n- 688 customers over $1M"}

\* the inputs of DefenseAgent.run
Question == "When will NRR stabilize?"
Kpis == << <<"NRR", "125%">>, <<"Quarter", "Q3 FY2026">>, <<"FCF", "$110.5M">> >>

\* "\n".join([f"- {k}: {v}" for k, v in kpis.items() if k != 'Quarter'])
KpiSummary(kpis) ==
    LET kept == SelectSeq(kpis, LAMBDA kv : kv[1] # "Quarter")
    IN Join("\n", [i \in 1..Len(kept) |-> "- " \o kept[i][1] \o ": " \o kept[i][2]])

(***************************************************************************)
(* The state of one run of an agent.                                        *)
(***************************************************************************)
VARIABLES
    agent,           \* "question" (QuestionAgent) or "defense" (DefenseAgent)
    max_turns,       \* self.max_turns
    data,            \* self.tools.data, the dataset bundle
    pc,              \* where run() stands
    turn,            \* iterations of the for loop completed
    messages,        \* the conversation
    collected_data,  \* the findings accumulated
    tool_calls,      \* the tool_use blocks of the turn in hand
    tool_results,    \* the tool_result entries of the turn in hand
    pos,             \* position in tool_calls of the invocation in hand
    synthesis,       \* the arguments of the pending synthesis, once run() reached it
    events,          \* the events yielded so far
    exception,       \* the exception that left run(), "" if none
    calls,           \* the calls placed on self.client.messages.create
    dispatched,      \* the calls placed on self.tools.execute_tool
    reads,           \* the tables of the bundle read so far
    engine,          \* the MetricsEngine object in hand, NoEngine if there is none
    outcome,         \* what the last call placed directly on an object gave back
    analysis,        \* the result of run_analysis its caller keeps, NoAnalysis if none
    other            \* the locals of a second invocation of run() that is not the one
                     \* taking steps now, NoOther if there is none

vars == <<agent, max_turns, data, pc, turn, messages, collected_data, tool_calls,
          tool_results, pos, synthesis, events, exception, calls, dispatched, reads,
          engine, outcome, analysis, other>>

\* no MetricsEngine object, no direct call yet
NoEngine == <<>>
NoOutcome == <<>>
NoAnalysis == <<>>
NoOther == <<>>

\* the prefix by which QuestionAgent.run recognises the result of generate_questions
Marker == "GENERATE_QUESTIONS:"

\* Preview without the cut: the whole result is shown
Preview_whole(result) == result

\* result[:500] + "..." if len(result) > 500 else result
Preview(result) == IF Len(result) > 500 THEN Prefix(result, 500) \o "..." ELSE result

\* [block for block in assistant_content if block.type == "tool_use"]
ToolUses(content) == SelectSeq(content, LAMBDA b : b.type = "tool_use")

\* [block.text for block in assistant_content if hasattr(block, 'text')]
TextBlocks(content) ==
    LET kept == SelectSeq(content, LAMBDA b : "text" \in DOMAIN b)
    IN [i \in 1..Len(kept) |-> kept[i].text]

TurnCall(msgs) == [kind |-> "turn", sent |-> Len(msgs)]
SynthesisCall(args) == [kind |-> "synthesis", prompt |-> args]

NoSynthesis == <<>>

\* self.max_turns as the two constructors set it
QuestionMaxTurns == 5
DefenseMaxTurns == 4

\* QuestionAgent.__init__ / DefenseAgent.__init__ and the start of run()
Init ==
    /\ agent \in {"question", "defense"}
    /\ max_turns = IF agent = "question" THEN QuestionMaxTurns ELSE DefenseMaxTurns
    /\ data \in DataSets
    /\ pc = "turn"
    /\ turn = 0
    /\ messages =
         << [role |-> "user",
             content |-> IF agent = "question"
                         THEN "Research Snowflake's data and generate 5 tough analyst questions."
                         ELSE "Research and defend against this question: " \o Question] >>
    /\ collected_data = <<>>
    /\ tool_calls = <<>>
    /\ tool_results = <<>>
    /\ pos = 0
    /\ synthesis = NoSynthesis
    /\ events = <<>>
    /\ exception = ""
    /\ calls = <<>>
    /\ dispatched = <<>>
    /\ reads = {}
    /\ engine = NoEngine
    /\ outcome = NoOutcome
    /\ analysis = NoAnalysis
    /\ other = NoOther

\* what every step of run() leaves alone
Fixed == UNCHANGED <<agent, max_turns, data, engine, outcome, analysis, other>>

(***************************************************************************)
(* QuestionAgent.run                                                        *)
(***************************************************************************)

\* QuestionAgent_turn without the return of line 71: after the complete event the
\* loop goes on to line 95
QuestionAgent_turn_no_return ==
    /\ agent = "question" /\ pc = "turn" /\ turn < max_turns
    /\ \E r \in 1..Len(Responses) :
         LET content == WithIds(Responses[r], Len(calls) + 1)
         IN /\ calls' = Append(calls, TurnCall(messages))
            /\ messages' = Append(messages, [role |-> "assistant", content |-> content])
            /\ tool_calls' = ToolUses(content)
            /\ tool_results' = <<>>
            /\ IF ToolUses(content) = <<>>
               THEN /\ events' = Append(events,
                          [type |-> "complete", content |-> Join("\n", TextBlocks(content))])
                    /\ pc' = "follow_up"
                    /\ UNCHANGED pos
               ELSE /\ pos' = 1
                    /\ pc' = "tool_call"
                    /\ UNCHANGED events
    /\ UNCHANGED <<turn, collected_data, synthesis, exception, dispatched, reads>>
    /\ Fixed

\* lines 54-71: the turn call returns one of responses; a response without tool_use
\* ends the run
QuestionAgent_turn_on(responses) ==
    /\ agent = "question" /\ pc = "turn" /\ turn < max_turns
    /\ \E r \in 1..Len(responses) :
         LET content == WithIds(responses[r], Len(calls) + 1)
         IN /\ calls' = Append(calls, TurnCall(messages))
            /\ messages' = Append(messages, [role |-> "assistant", content |-> content])
            /\ tool_calls' = ToolUses(content)
            /\ IF ToolUses(content) = <<>>
               THEN /\ events' = Append(events,
                          [type |-> "complete", content |-> Join("\n", TextBlocks(content))])
                    /\ pc' = "done"
                    /\ UNCHANGED <<tool_results, pos>>
               ELSE /\ tool_results' = <<>>
                    /\ pos' = 1
                    /\ pc' = "tool_call"
                    /\ UNCHANGED events
    /\ UNCHANGED <<turn, collected_data, synthesis, exception, dispatched, reads>>
    /\ Fixed

\* lines 54-71 with the service answering as Responses says
QuestionAgent_turn == QuestionAgent_turn_on(Responses)

\* lines 55-61: the turn call raises; nothing in run() catches it
QuestionAgent_turn_raises ==
    /\ agent = "question" /\ pc = "turn" /\ turn < max_turns
    /\ calls' = Append(calls, TurnCall(messages))
    /\ exception' = "APIConnectionError"
    /\ pc' = "raised"
    /\ UNCHANGED <<turn, messages, collected_data, tool_calls, tool_results, pos,
                   synthesis, events, dispatched, reads>>
    /\ Fixed

\* lines 74-78: the next invocation is announced
QuestionAgent_tool_call ==
    /\ agent = "question" /\ pc = "tool_call"
    /\ events' = Append(events, [type |-> "tool_call", tool |-> tool_calls[pos].name,
                                 input |-> tool_calls[pos].input])
    /\ pc' = "execute"
    /\ UNCHANGED <<turn, messages, collected_data, tool_calls, tool_results, pos,
                   synthesis, exception, calls, dispatched, reads>>
    /\ Fixed

\* QuestionAgent_execute with an engine that sorts the peer table of the bundle
\* itself (sort_values(..., inplace=True)) when check_anomalies runs
QuestionAgent_execute_sorts_in_place ==
    /\ agent = "question" /\ pc = "execute"
    /\ \E out \in {execute_tool(data, tool_calls[pos].name, tool_calls[pos].input)} :
       LET tool_call == tool_calls[pos]
           result == out.value
       IN /\ dispatched' = Append(dispatched, <<tool_call.name, tool_call.input>>)
          /\ reads' = reads \cup out.reads
          /\ IF out.raised
             THEN /\ exception' = out.value
                  /\ pc' = "raised"
                  /\ UNCHANGED <<synthesis, events, collected_data, tool_results, pos>>
             ELSE IF StartsWith(result, Marker)
             THEN /\ synthesis' = [findings |-> Remove(result, Marker),
                                   actual_data |-> Join("\n\n", collected_data)]
                  /\ pc' = "synthesis"
                  /\ UNCHANGED <<exception, events, collected_data, tool_results, pos>>
             ELSE /\ events' = Append(events, [type |-> "tool_result",
                                               content |-> Preview(result)])
                  /\ collected_data' = Append(collected_data,
                                         "[" \o tool_call.name \o "]:\n" \o result)
                  /\ tool_results' = Append(tool_results,
                                        [type |-> "tool_result",
                                         tool_use_id |-> tool_call.id,
                                         content |-> result])
                  /\ IF pos < Len(tool_calls)
                     THEN pos' = pos + 1 /\ pc' = "tool_call"
                     ELSE pos' = pos /\ pc' = "follow_up"
                  /\ UNCHANGED <<exception, synthesis>>
    /\ UNCHANGED <<turn, messages, tool_calls, calls>>
    /\ data' = IF tool_calls[pos].name = "check_anomalies" /\ HasTable(data, "peer_financials")
               THEN [data EXCEPT !["peer_financials"] = SortDesc(@)]
               ELSE data
    /\ UNCHANGED <<agent, max_turns, engine, outcome, analysis, other>>

\* lines 80-93: the invocation is executed and its result handled
QuestionAgent_execute ==
    /\ agent = "question" /\ pc = "execute"
    /\ \E out \in {execute_tool(data, tool_calls[pos].name, tool_calls[pos].input)} :
       LET tool_call == tool_calls[pos]
           result == out.value
       IN /\ dispatched' = Append(dispatched, <<tool_call.name, tool_call.input>>)
          /\ reads' = reads \cup out.reads
          /\ IF out.raised
             THEN /\ exception' = out.value
                  /\ pc' = "raised"
                  /\ UNCHANGED <<synthesis, events, collected_data, tool_results, pos>>
             ELSE IF StartsWith(result, Marker)
             THEN /\ synthesis' = [findings |-> Remove(result, Marker),
                                   actual_data |-> Join("\n\n", collected_data)]
                  /\ pc' = "synthesis"
                  /\ UNCHANGED <<exception, events, collected_data, tool_results, pos>>
             ELSE /\ events' = Append(events, [type |-> "tool_result",
                                               content |-> Preview(result)])
                  /\ collected_data' = Append(collected_data,
                                         "[" \o tool_call.name \o "]:\n" \o result)
                  /\ tool_results' = Append(tool_results,
                                        [type |-> "tool_result",
                                         tool_use_id |-> tool_call.id,
                                         content |-> result])
                  /\ IF pos < Len(tool_calls)
                     THEN pos' = pos + 1 /\ pc' = "tool_call"
                     ELSE pos' = pos /\ pc' = "follow_up"
                  /\ UNCHANGED <<exception, synthesis>>
    /\ UNCHANGED <<turn, messages, tool_calls, calls>>
    /\ Fixed

\* QuestionAgent__generate_final_questions without the return of line 88: after the
\* questions event the loop goes on with the rest of the batch
QuestionAgent__generate_final_questions_no_return ==
    /\ agent = "question" /\ pc = "synthesis"
    /\ calls' = Append(calls, SynthesisCall(synthesis))
    /\ \E text \in SynthesisTexts :
         events' = Append(events, [type |-> "questions", content |-> text])
    /\ IF pos < Len(tool_calls)
       THEN pos' = pos + 1 /\ pc' = "tool_call"
       ELSE pos' = pos /\ pc' = "follow_up"
    /\ UNCHANGED <<turn, messages, collected_data, tool_calls, tool_results,
                   synthesis, exception, dispatched, reads>>
    /\ Fixed

\* lines 86-88 and 144-150: _generate_final_questions returns and the run ends
QuestionAgent__generate_final_questions ==
    /\ agent = "question" /\ pc = "synthesis"
    /\ calls' = Append(calls, SynthesisCall(synthesis))
    /\ \E text \in SynthesisTexts :
         events' = Append(events, [type |-> "questions", content |-> text])
    /\ pc' = "done"
    /\ UNCHANGED <<turn, messages, collected_data, tool_calls, tool_results, pos,
                   synthesis, exception, dispatched, reads>>
    /\ Fixed

\* lines 144-148: the synthesis call raises; nothing catches it
QuestionAgent__generate_final_questions_raises ==
    /\ agent = "question" /\ pc = "synthesis"
    /\ calls' = Append(calls, SynthesisCall(synthesis))
    /\ exception' = "APIConnectionError"
    /\ pc' = "raised"
    /\ UNCHANGED <<turn, messages, collected_data, tool_calls, tool_results, pos,
                   synthesis, events, dispatched, reads>>
    /\ Fixed

\* QuestionAgent_follow_up without the messages.append of line 95: the loop goes to
\* its next turn with the results of this one left out of the conversation
QuestionAgent_follow_up_not_appended ==
    /\ agent = "question" /\ pc = "follow_up"
    /\ turn' = turn + 1
    /\ pc' = "turn"
    /\ UNCHANGED <<messages, collected_data, tool_calls, tool_results, pos, synthesis,
                   events, exception, calls, dispatched, reads>>
    /\ Fixed

\* line 95 and the loop's increment: the turn's results go back in one message
QuestionAgent_follow_up ==
    /\ agent = "question" /\ pc = "follow_up"
    /\ messages' = Append(messages, [role |-> "user", content |-> tool_results])
    /\ turn' = turn + 1
    /\ pc' = "turn"
    /\ UNCHANGED <<collected_data, tool_calls, tool_results, pos, synthesis, events,
                   exception, calls, dispatched, reads>>
    /\ Fixed

\* line 97: the loop is exhausted
QuestionAgent_max_turns ==
    /\ agent = "question" /\ pc = "turn" /\ turn >= max_turns
    /\ events' = Append(events, [type |-> "error", content |-> "Max turns reached"])
    /\ pc' = "done"
    /\ UNCHANGED <<turn, messages, collected_data, tool_calls, tool_results, pos,
                   synthesis, exception, calls, dispatched, reads>>
    /\ Fixed

(***************************************************************************)
(* DefenseAgent.run                                                         *)
(***************************************************************************)

\* lines 243-260: the turn call returns one of responses; a response without
\* tool_use ends the run
DefenseAgent_turn_on(responses) ==
    /\ agent = "defense" /\ pc = "turn" /\ turn < max_turns
    /\ \E r \in 1..Len(responses) :
         LET content == WithIds(responses[r], Len(calls) + 1)
         IN /\ calls' = Append(calls, TurnCall(messages))
            /\ messages' = Append(messages, [role |-> "assistant", content |-> content])
            /\ tool_calls' = ToolUses(content)
            /\ IF ToolUses(content) = <<>>
               THEN /\ events' = Append(events,
                          [type |-> "complete", content |-> Join("\n", TextBlocks(content))])
                    /\ pc' = "done"
                    /\ UNCHANGED <<tool_results, pos>>
               ELSE /\ tool_results' = <<>>
                    /\ pos' = 1
                    /\ pc' = "tool_call"
                    /\ UNCHANGED events
    /\ UNCHANGED <<turn, collected_data, synthesis, exception, dispatched, reads>>
    /\ Fixed

\* lines 243-260 with the service answering as Responses says
DefenseAgent_turn == DefenseAgent_turn_on(Responses)

\* lines 244-250: the turn call raises; nothing in run() catches it
DefenseAgent_turn_raises ==
    /\ agent = "defense" /\ pc = "turn" /\ turn < max_turns
    /\ calls' = Append(calls, TurnCall(messages))
    /\ exception' = "APIConnectionError"
    /\ pc' = "raised"
    /\ UNCHANGED <<turn, messages, collected_data, tool_calls, tool_results, pos,
                   synthesis, events, dispatched, reads>>
    /\ Fixed

\* DefenseAgent_tool_call with the yield of line 267 placed after the sentinel is
\* taken out: generate_defense goes to synthesis without a tool_call event
DefenseAgent_tool_call_sentinel_unannounced ==
    /\ agent = "defense" /\ pc = "tool_call"
    /\ events' = IF tool_calls[pos].name = "generate_defense" THEN events
                 ELSE Append(events, [type |-> "tool_call", tool |-> tool_calls[pos].name,
                                      input |-> tool_calls[pos].input])
    /\ pc' = "execute"
    /\ UNCHANGED <<turn, messages, collected_data, tool_calls, tool_results, pos,
                   synthesis, exception, calls, dispatched, reads>>
    /\ Fixed

\* lines 263-267: the next invocation is announced
DefenseAgent_tool_call ==
    /\ agent = "defense" /\ pc = "tool_call"
    /\ events' = Append(events, [type |-> "tool_call", tool |-> tool_calls[pos].name,
                                 input |-> tool_calls[pos].input])
    /\ pc' = "execute"
    /\ UNCHANGED <<turn, messages, collected_data, tool_calls, tool_results, pos,
                   synthesis, exception, calls, dispatched, reads>>
    /\ Fixed

\* DefenseAgent_sentinel with the anomaly check run for the sentinel before synthesis
DefenseAgent_sentinel_checks_anomalies ==
    /\ agent = "defense" /\ pc = "execute"
    /\ tool_calls[pos].name = "generate_defense"
    /\ synthesis' = [question |-> Question,
                     talking_points |-> Get(tool_calls[pos].input, "talking_points", ""),
                     actual_data |-> Join("\n\n", collected_data),
                     kpi_summary |-> KpiSummary(Kpis)]
    /\ reads' = reads \cup _check_anomalies(data).reads
    /\ pc' = "synthesis"
    /\ UNCHANGED <<turn, messages, collected_data, tool_calls, tool_results, pos,
                   events, exception, calls, dispatched>>
    /\ Fixed

\* lines 270-273: generate_defense is taken out before the registry sees it
DefenseAgent_sentinel ==
    /\ agent = "defense" /\ pc = "execute"
    /\ tool_calls[pos].name = "generate_defense"
    /\ synthesis' = [question |-> Question,
                     talking_points |-> Get(tool_calls[pos].input, "talking_points", ""),
                     actual_data |-> Join("\n\n", collected_data),
                     kpi_summary |-> KpiSummary(Kpis)]
    /\ pc' = "synthesis"
    /\ UNCHANGED <<turn, messages, collected_data, tool_calls, tool_results, pos,
                   events, exception, calls, dispatched, reads>>
    /\ Fixed

\* DefenseAgent_execute with the result check of QuestionAgent.run (agent.py:83) kept
\* in it: a result that starts with the marker of generate_questions goes to synthesis
DefenseAgent_execute_marker_check ==
    /\ agent = "defense" /\ pc = "execute"
    /\ tool_calls[pos].name # "generate_defense"
    /\ \E out \in {execute_tool(data, tool_calls[pos].name, tool_calls[pos].input)} :
       LET tool_call == tool_calls[pos]
           result == out.value
       IN /\ dispatched' = Append(dispatched, <<tool_call.name, tool_call.input>>)
          /\ reads' = reads \cup out.reads
          /\ IF out.raised
             THEN /\ exception' = out.value
                  /\ pc' = "raised"
                  /\ UNCHANGED <<synthesis, events, collected_data, tool_results, pos>>
             ELSE IF StartsWith(result, Marker)
             THEN /\ synthesis' = [question |-> Question,
                                   talking_points |-> Remove(result, Marker),
                                   actual_data |-> Join("\n\n", collected_data),
                                   kpi_summary |-> KpiSummary(Kpis)]
                  /\ pc' = "synthesis"
                  /\ UNCHANGED <<exception, events, collected_data, tool_results, pos>>
             ELSE /\ events' = Append(events, [type |-> "tool_result",
                                               content |-> Preview(result)])
                  /\ collected_data' = Append(collected_data,
                                         "[" \o tool_call.name \o "]:\n" \o result)
                  /\ tool_results' = Append(tool_results,
                                        [type |-> "tool_result",
                                         tool_use_id |-> tool_call.id,
                                         content |-> result])
                  /\ IF pos < Len(tool_calls)
                     THEN pos' = pos + 1 /\ pc' = "tool_call"
                     ELSE pos' = pos /\ pc' = "follow_up"
                  /\ UNCHANGED <<exception, synthesis>>
    /\ UNCHANGED <<turn, messages, tool_calls, calls>>
    /\ Fixed

\* lines 277-281: any other invocation is executed and its result recorded
DefenseAgent_execute ==
    /\ agent = "defense" /\ pc = "execute"
    /\ tool_calls[pos].name # "generate_defense"
    /\ \E out \in {execute_tool(data, tool_calls[pos].name, tool_calls[pos].input)} :
       LET tool_call == tool_calls[pos]
           result == out.value
       IN /\ dispatched' = Append(dispatched, <<tool_call.name, tool_call.input>>)
          /\ reads' = reads \cup out.reads
          /\ IF out.raised
             THEN /\ exception' = out.value
                  /\ pc' = "raised"
                  /\ UNCHANGED <<events, collected_data, tool_results, pos>>
             ELSE /\ events' = Append(events, [type |-> "tool_result",
                                               content |-> Preview(result)])
                  /\ collected_data' = Append(collected_data,
                                         "[" \o tool_call.name \o "]:\n" \o result)
                  /\ tool_results' = Append(tool_results,
                                        [type |-> "tool_result",
                                         tool_use_id |-> tool_call.id,
                                         content |-> result])
                  /\ IF pos < Len(tool_calls)
                     THEN pos' = pos + 1 /\ pc' = "tool_call"
                     ELSE pos' = pos /\ pc' = "follow_up"
                  /\ UNCHANGED exception
    /\ UNCHANGED <<turn, messages, tool_calls, calls, synthesis>>
    /\ Fixed

\* lines 273-275 and 357-363: _generate_final_defense returns and the run ends
DefenseAgent__generate_final_defense ==
    /\ agent = "defense" /\ pc = "synthesis"
    /\ calls' = Append(calls, SynthesisCall(synthesis))
    /\ \E text \in SynthesisTexts :
         events' = Append(events, [type |-> "defense", content |-> text])
    /\ pc' = "done"
    /\ UNCHANGED <<turn, messages, collected_data, tool_calls, tool_results, pos,
                   synthesis, exception, dispatched, reads>>
    /\ Fixed

\* lines 357-361: the synthesis call raises; nothing catches it
DefenseAgent__generate_final_defense_raises ==
    /\ agent = "defense" /\ pc = "synthesis"
    /\ calls' = Append(calls, SynthesisCall(synthesis))
    /\ exception' = "APIConnectionError"
    /\ pc' = "raised"
    /\ UNCHANGED <<turn, messages, collected_data, tool_calls, tool_results, pos,
                   synthesis, events, dispatched, reads>>
    /\ Fixed

\* DefenseAgent_follow_up after a turn that rebinds tool_results for every invocation
\* instead of appending to it: only the last result goes back
DefenseAgent_follow_up_last_only ==
    /\ agent = "defense" /\ pc = "follow_up"
    /\ messages' = Append(messages, [role |-> "user",
                                     content |-> <<tool_results[Len(tool_results)]>>])
    /\ turn' = turn + 1
    /\ pc' = "turn"
    /\ UNCHANGED <<collected_data, tool_calls, tool_results, pos, synthesis, events,
                   exception, calls, dispatched, reads>>
    /\ Fixed

\* line 283 and the loop's increment: the turn's results go back in one message
DefenseAgent_follow_up ==
    /\ agent = "defense" /\ pc = "follow_up"
    /\ messages' = Append(messages, [role |-> "user", content |-> tool_results])
    /\ turn' = turn + 1
    /\ pc' = "turn"
    /\ UNCHANGED <<collected_data, tool_calls, tool_results, pos, synthesis, events,
                   exception, calls, dispatched, reads>>
    /\ Fixed

\* DefenseAgent_max_turns without the yield of line 285: the exhausted loop returns
\* with no event, as the docstring of DefenseAgent.run lists none for it
DefenseAgent_max_turns_silent ==
    /\ agent = "defense" /\ pc = "turn" /\ turn >= max_turns
    /\ pc' = "done"
    /\ UNCHANGED <<turn, messages, collected_data, tool_calls, tool_results, pos,
                   synthesis, events, exception, calls, dispatched, reads>>
    /\ Fixed

\* line 285: the loop is exhausted
DefenseAgent_max_turns ==
    /\ agent = "defense" /\ pc = "turn" /\ turn >= max_turns
    /\ events' = Append(events, [type |-> "error", content |-> "Max turns reached"])
    /\ pc' = "done"
    /\ UNCHANGED <<turn, messages, collected_data, tool_calls, tool_results, pos,
                   synthesis, exception, calls, dispatched, reads>>
    /\ Fixed

Next ==
    \/ QuestionAgent_turn
    \/ QuestionAgent_turn_raises
    \/ QuestionAgent_tool_call
    \/ QuestionAgent_execute
    \/ QuestionAgent__generate_final_questions
    \/ QuestionAgent__generate_final_questions_raises
    \/ QuestionAgent_follow_up
    \/ QuestionAgent_max_turns
    \/ DefenseAgent_turn
    \/ DefenseAgent_turn_raises
    \/ DefenseAgent_tool_call
    \/ DefenseAgent_sentinel
    \/ DefenseAgent_execute
    \/ DefenseAgent__generate_final_defense
    \/ DefenseAgent__generate_final_defense_raises
    \/ DefenseAgent_follow_up
    \/ DefenseAgent_max_turns

Spec == Init /\ [][Next]_vars

(***************************************************************************)
(* What the properties below speak of.                                      *)
(***************************************************************************)

\* the tool whose invocation ends the research of the running agent
Sentinel == IF agent = "question" THEN "generate_questions" ELSE "generate_defense"

\* the type of the running agent's final-result event
FinalType == IF agent = "question" THEN "questions" ELSE "defense"

TerminalTypes == {"complete", "questions", "defense", "error"}

Ended == pc \in {"done", "raised"}

CallsOf(kind) == SelectSeq(calls, LAMBDA c : c.kind = kind)
EventsOf(type) == SelectSeq(events, LAMBDA e : e.type = type)

\* the positions of the model's responses in the conversation
AssistantAt == {i \in 1..Len(messages) : messages[i].role = "assistant"}

\* the tool invocations of all responses so far, in order
RECURSIVE UsesUpTo(_)
UsesUpTo(i) ==
    IF i = 0 THEN <<>>
    ELSE UsesUpTo(i - 1) \o (IF messages[i].role = "assistant"
                             THEN ToolUses(messages[i].content) ELSE <<>>)

AllUses == UsesUpTo(Len(messages))

\* the position of the first sentinel among the invocations uses, 0 if there is none
FirstSentinel(uses) ==
    IF \E k \in 1..Len(uses) : uses[k].name = Sentinel
    THEN CHOOSE k \in 1..Len(uses) :
           /\ uses[k].name = Sentinel
           /\ \A j \in 1..(k - 1) : uses[j].name # Sentinel
    ELSE 0

\* every model call of the run so far has returned
ModelCallsReturned == exception # "APIConnectionError"

(***************************************************************************)
(* C1.  When every turn response holds at least one tool invocation and     *)
(* none of them is the sentinel, the run places exactly max_turns turn      *)
(* calls, then yields exactly one error event "Max turns reached", and      *)
(* places no synthesis call.  Stated for the runs whose model calls all     *)
(* returned; a tool that raises (KeyError on a table the bundle lacks)      *)
(* ends the run before that.                                                *)
(***************************************************************************)
NeverSentinel ==
    \A i \in AssistantAt :
        /\ ToolUses(messages[i].content) # <<>>
        /\ FirstSentinel(ToolUses(messages[i].content)) = 0

C1_MaxTurnsThenError ==
    (Ended /\ ModelCallsReturned /\ NeverSentinel) =>
        /\ Len(CallsOf("turn")) = max_turns
        /\ EventsOf("error") = << [type |-> "error", content |-> "Max turns reached"] >>
        /\ events[Len(events)].type = "error"
        /\ CallsOf("synthesis") = <<>>

(***************************************************************************)
(* C2.  When the first turn response includes the sentinel, the run ends    *)
(* after exactly one synthesis call and exactly one final-result event,     *)
(* without a second turn call.  Stated for the runs whose model calls all   *)
(* returned.                                                                *)
(***************************************************************************)
FirstResponseHasSentinel ==
    /\ Len(messages) >= 2
    /\ FirstSentinel(ToolUses(messages[2].content)) # 0

C2_FirstTurnSentinel ==
    (Ended /\ ModelCallsReturned /\ FirstResponseHasSentinel) =>
        /\ Len(CallsOf("synthesis")) = 1
        /\ Len(EventsOf(FinalType)) = 1
        /\ Len(CallsOf("turn")) = 1

(***************************************************************************)
(* C3.  A run whose model calls all return ends with a terminal event       *)
(* (complete, final result or error) after at most max_turns + 1 model      *)
(* calls.                                                                   *)
(***************************************************************************)
C3_EndsWithTerminalEvent ==
    (Ended /\ ModelCallsReturned) =>
        /\ events # <<>>
        /\ events[Len(events)].type \in TerminalTypes
        /\ Len(calls) <= max_turns + 1

(***************************************************************************)
(* C6.  An exception raised by a language-model call (a turn call or the    *)
(* synthesis call) never leaves run(): it is caught and surfaced as a       *)
(* terminal error event.                                                    *)
(***************************************************************************)
C6_TransportFailureCaught == exception # "APIConnectionError"

(***************************************************************************)
(* C4.  When the batch of a turn holds the sentinel at position k, the      *)
(* invocations after k are discarded: the run never moves past k, yields    *)
(* no tool_call or tool_result event for them, never hands them to          *)
(* execute_tool and records no conversation entry for them; once the        *)
(* sentinel is reached, the invocations before k have each been announced,  *)
(* executed and recorded, in order.                                         *)
(***************************************************************************)
LastAssistant == CHOOSE i \in AssistantAt : \A j \in AssistantAt : j <= i

C4_AfterSentinelDiscarded ==
    (AssistantAt # {} /\ FirstSentinel(tool_calls) # 0) =>
        LET k == FirstSentinel(tool_calls)
            prior == UsesUpTo(LastAssistant - 1)
            expected == prior \o SubSeq(tool_calls, 1, k)
            announced == EventsOf("tool_call")
            \* QuestionAgent hands the sentinel itself to execute_tool, DefenseAgent does not
            handed == IF agent = "question" THEN Len(prior) + k ELSE Len(prior) + k - 1
        IN /\ pos <= k
           /\ LastAssistant = Len(messages)
           /\ Len(announced) <= Len(expected)
           /\ \A i \in 1..Len(announced) :
                 /\ announced[i].tool = expected[i].name
                 /\ announced[i].input = expected[i].input
           /\ Len(dispatched) <= handed
           /\ \A i \in 1..Len(dispatched) :
                 dispatched[i] = <<expected[i].name, expected[i].input>>
           /\ Len(EventsOf("tool_result")) <= Len(prior) + k - 1
           /\ Len(collected_data) <= Len(prior) + k - 1
           /\ Len(tool_results) <= k - 1
           /\ synthesis # NoSynthesis =>
                 /\ pos = k
                 /\ Len(announced) = Len(expected)
                 /\ Len(dispatched) = handed
                 /\ Len(EventsOf("tool_result")) = Len(prior) + k - 1
                 /\ Len(tool_results) = k - 1
                 /\ \A j \in 1..(k - 1) : tool_results[j].tool_use_id = tool_calls[j].id

\* a run that ended by synthesis on a sentinel at position 2 of a batch of 3
C4_Witness ==
    /\ pc = "done"
    /\ events[Len(events)].type = FinalType
    /\ Len(tool_calls) = 3
    /\ FirstSentinel(tool_calls) = 2

(***************************************************************************)
(* C5.  A turn response without any tool invocation, in whichever turn,     *)
(* ends the run with exactly one complete event whose content is the        *)
(* response's text blocks joined by "\n" in order: no further turn call,    *)
(* no synthesis call, no error or final-result event.                       *)
(***************************************************************************)
C5_NoToolResponseCompletes ==
    /\ Len(EventsOf("complete")) <= 1
    /\ \A i \in AssistantAt :
          ToolUses(messages[i].content) = <<>> =>
              /\ i = Len(messages)
              /\ pc = "done"
              /\ Len(CallsOf("turn")) = Cardinality(AssistantAt)
              /\ CallsOf("synthesis") = <<>>
              /\ events[Len(events)] =
                    [type |-> "complete",
                     content |-> Join("\n", TextBlocks(messages[i].content))]
              /\ Len(EventsOf("complete")) = 1
              /\ EventsOf("error") = <<>>
              /\ EventsOf(FinalType) = <<>>

\* a response of two text blocks and no tool invocation, given after two full turns
C5_Witness ==
    /\ pc = "done"
    /\ turn = 2
    /\ events[Len(events)] = [type |-> "complete", content |-> "Summary:\nNRR is the weak spot."]

\* the conversation entries recorded so far: those of the follow-up messages, and
\* those of the turn in hand while its follow-up is still to come
RECURSIVE EntriesUpTo(_)
EntriesUpTo(i) ==
    IF i <= 1 THEN <<>>
    ELSE EntriesUpTo(i - 1) \o (IF messages[i].role = "user" THEN messages[i].content ELSE <<>>)

Entries ==
    EntriesUpTo(Len(messages))
    \o (IF /\ messages[Len(messages)].role = "assistant"
           /\ ToolUses(messages[Len(messages)].content) # <<>>
        THEN tool_results ELSE <<>>)

(***************************************************************************)
(* C7 (as amended).  The content of a tool_result event is the result       *)
(* itself when the result has at most 500 characters, and otherwise the     *)
(* first 500 characters of the result followed by "...": 503 characters.    *)
(***************************************************************************)
C7_PreviewAtMost503 ==
    LET shown == EventsOf("tool_result")
    IN /\ Len(shown) = Len(Entries)
       /\ \A k \in 1..Len(shown) :
             LET full == Entries[k].content
                 c == shown[k].content
             IN /\ Len(c) <= 503
                /\ Len(full) <= 500 => c = full
                /\ Len(full) > 500 =>
                      /\ Len(c) = 503
                      /\ SubSeq(c, 1, 500) = SubSeq(full, 1, 500)
                      /\ SubSeq(c, 501, 503) = "..."

\* C7 as claimed: no tool_result event carries more than 500 characters
C7_PreviewAtMost500 ==
    \A k \in 1..Len(EventsOf("tool_result")) : Len(EventsOf("tool_result")[k].content) <= 500

\* a result of 501 characters was shown as 503
C7_Witness ==
    \E k \in 1..Len(EventsOf("tool_result")) :
        /\ k <= Len(Entries)
        /\ Len(Entries[k].content) = 501
        /\ Len(EventsOf("tool_result")[k].content) = 503

(***************************************************************************)
(* C8.  There is at most one synthesis call, and its prompt holds the       *)
(* sentinel's own payload and, in actual_data, every result recorded so     *)
(* far in the run, at full length, tagged "[tool name]:" and in order.      *)
(***************************************************************************)
C8_SynthesisContext ==
    /\ Len(CallsOf("synthesis")) <= 1
    /\ \A i \in 1..Len(calls) :
          calls[i].kind = "synthesis" =>
              LET prompt == calls[i].prompt
                  sentinel == tool_calls[FirstSentinel(tool_calls)]
                  tagged == [j \in 1..Len(Entries) |->
                                "[" \o AllUses[j].name \o "]:\n" \o Entries[j].content]
              IN /\ FirstSentinel(tool_calls) # 0
                 /\ IF agent = "question"
                    THEN prompt.findings = Get(sentinel.input, "findings", "")
                    ELSE prompt.talking_points = Get(sentinel.input, "talking_points", "")
                 /\ prompt.actual_data = Join("\n\n", tagged)
                 /\ Len(Entries) = Len(UsesUpTo(LastAssistant - 1)) + FirstSentinel(tool_calls) - 1

(***************************************************************************)
(* C9.  In a turn without a sentinel the invocations are executed one       *)
(* after another in the order of the response; once the last one is done,   *)
(* one user message is appended that holds one tool_result entry per        *)
(* invocation of the turn, in the same order, each with the identifier of   *)
(* its invocation and its full result; the turn counter then grows by one,  *)
(* however many invocations the turn held.                                  *)
(***************************************************************************)
C9_TurnResultsBatched ==
    /\ \A i \in 1..Len(messages) :
          messages[i].role = IF i % 2 = 1 THEN "user" ELSE "assistant"
    /\ \A i \in AssistantAt :
          i < Len(messages) =>
              LET uses == ToolUses(messages[i].content)
                  entries == messages[i + 1].content
              IN /\ uses # <<>>
                 /\ FirstSentinel(uses) = 0
                 /\ Len(entries) = Len(uses)
                 /\ \A j \in 1..Len(uses) :
                       entries[j] =
                         [type |-> "tool_result",
                          tool_use_id |-> uses[j].id,
                          content |-> execute_tool(data, uses[j].name, uses[j].input).value]
    /\ turn = Cardinality({i \in 2..Len(messages) : messages[i].role = "user"})
    /\ Len(dispatched) <= Len(AllUses)
    /\ \A i \in 1..Len(dispatched) : dispatched[i] = <<AllUses[i].name, AllUses[i].input>>
    /\ pc \in {"tool_call", "execute"} =>
          /\ Len(tool_results) = pos - 1
          /\ \A j \in 1..(pos - 1) : tool_results[j].tool_use_id = tool_calls[j].id
    /\ pc = "follow_up" =>
          /\ FirstSentinel(tool_calls) = 0
          /\ Len(tool_results) = Len(tool_calls)
          /\ \A j \in 1..Len(tool_calls) : tool_results[j].tool_use_id = tool_calls[j].id

\* the follow-up of a first turn of two invocations, and a second turn call placed
C9_Witness ==
    /\ Len(messages) >= 4
    /\ turn = 1
    /\ Len(messages[3].content) = 2
    /\ messages[3].content[1].tool_use_id = "toolu_1_1"
    /\ messages[3].content[2].tool_use_id = "toolu_1_2"

(***************************************************************************)
(* C10.  execute_tool, given a name that is not registered, returns         *)
(* "Unknown tool: <name>" whatever the arguments, raises nothing and reads  *)
(* no table; the loop records that text as the invocation's result (event,  *)
(* findings, conversation entry) and goes on with the batch.                *)
(***************************************************************************)
RegisteredTools ==
    {"get_snowflake_metrics", "search_transcripts", "get_analyst_ratings",
     "get_competitor_news", "check_anomalies", "get_sec_filings",
     "get_press_releases", "compare_to_competitor", "generate_questions"}

\* the invocation in hand reaches execute_tool under a name that is not registered
UnknownInHand ==
    /\ pc = "execute"
    /\ tool_calls[pos].name \notin RegisteredTools
    /\ ~(agent = "defense" /\ tool_calls[pos].name = "generate_defense")

C10_UnknownToolAbsorbed ==
    [][UnknownInHand =>
         LET name == tool_calls[pos].name
             text == "Unknown tool: " \o name
         IN /\ pc' \in {"tool_call", "follow_up"}
            /\ exception' = ""
            /\ reads' = reads
            /\ dispatched' = Append(dispatched, <<name, tool_calls[pos].input>>)
            /\ events' = Append(events, [type |-> "tool_result", content |-> text])
            /\ collected_data' = Append(collected_data, "[" \o name \o "]:\n" \o text)
            /\ tool_results' = Append(tool_results,
                                  [type |-> "tool_result",
                                   tool_use_id |-> tool_calls[pos].id,
                                   content |-> text])]_vars

\* the diagnostic for lookup_stock went back to the model and a further turn call followed
C10_Witness ==
    /\ Len(messages) >= 4
    /\ \E j \in 1..Len(messages[3].content) :
          messages[3].content[j].content = "Unknown tool: lookup_stock"
    /\ Len(CallsOf("turn")) >= 2
    /\ reads = {"earnings_transcripts"}

(***************************************************************************)
(* Optional tables                                                          *)
(***************************************************************************)

\* the tools that read an optional table of the bundle, and the table each reads
OptionalTools == {"search_transcripts", "get_analyst_ratings", "get_competitor_news",
                  "get_sec_filings", "get_press_releases"}

OptionalTableOf(tool_name) ==
    CASE tool_name = "search_transcripts" -> "earnings_transcripts"
      [] tool_name = "get_analyst_ratings" -> "analyst_ratings"
      [] tool_name = "get_competitor_news" -> "news_snippets"
      [] tool_name = "get_sec_filings" -> "sec_filings"
      [] tool_name = "get_press_releases" -> "press_releases"

\* the last call placed on execute_tool asked for an optional table the bundle lacks
AbsentTableInHand ==
    /\ dispatched # <<>>
    /\ dispatched[Len(dispatched)][1] \in OptionalTools
    /\ ~HasTable(data, OptionalTableOf(dispatched[Len(dispatched)][1]))

\* C11: when an optional table is absent from the bundle, executing the tool that
\* reads it does not raise and does not fail the run: the call returns a text, the
\* text is recorded as the invocation's result and the loop goes on.
C11_MissingTableNoData ==
    AbsentTableInHand =>
        /\ exception # "KeyError"
        /\ pc # "raised" \/ exception = "APIConnectionError"
        /\ Len(collected_data) >= 1

(***************************************************************************)
(* DataTools called directly: one execute_tool call on a bundle.            *)
(***************************************************************************)

\* get_tool_definitions with another default declared for quarters
get_tool_definitions_quarters_2 ==
    << [name |-> "get_snowflake_metrics",
        properties |-> << [name |-> "metric", default |-> <<>>],
                          [name |-> "quarters", default |-> <<2>>] >>,
        required |-> {"metric"}],
       [name |-> "search_transcripts",
        properties |-> << [name |-> "keyword", default |-> <<>>],
                          [name |-> "company", default |-> <<"all">>],
                          [name |-> "limit", default |-> <<3>>] >>,
        required |-> {"keyword"}],
       [name |-> "get_analyst_ratings",
        properties |-> << [name |-> "company", default |-> <<"SNOW">>] >>,
        required |-> {}],
       [name |-> "get_competitor_news",
        properties |-> << [name |-> "ticker", default |-> <<"all">>] >>,
        required |-> {}],
       [name |-> "check_anomalies", properties |-> <<>>, required |-> {}],
       [name |-> "get_sec_filings",
        properties |-> << [name |-> "filing_type", default |-> <<"all">>],
                          [name |-> "limit", default |-> <<3>>] >>,
        required |-> {}],
       [name |-> "get_press_releases",
        properties |-> << [name |-> "keyword", default |-> <<"">>],
                          [name |-> "limit", default |-> <<5>>] >>,
        required |-> {}],
       [name |-> "compare_to_competitor",
        properties |-> << [name |-> "competitor", default |-> <<>>],
                          [name |-> "metric", default |-> <<"all">>] >>,
        required |-> {"competitor"}],
       [name |-> "generate_questions",
        properties |-> << [name |-> "findings", default |-> <<>>] >>,
        required |-> {"findings"}] >>

\* DataTools.get_tool_definitions: of every tool its name, its properties in order
\* with the default the schema declares (<<v>>, or <<>> when it declares none), and
\* the names it requires
get_tool_definitions ==
    << [name |-> "get_snowflake_metrics",
        properties |-> << [name |-> "metric", default |-> <<>>],
                          [name |-> "quarters", default |-> <<4>>] >>,
        required |-> {"metric"}],
       [name |-> "search_transcripts",
        properties |-> << [name |-> "keyword", default |-> <<>>],
                          [name |-> "company", default |-> <<"all">>],
                          [name |-> "limit", default |-> <<3>>] >>,
        required |-> {"keyword"}],
       [name |-> "get_analyst_ratings",
        properties |-> << [name |-> "company", default |-> <<"SNOW">>] >>,
        required |-> {}],
       [name |-> "get_competitor_news",
        properties |-> << [name |-> "ticker", default |-> <<"all">>] >>,
        required |-> {}],
       [name |-> "check_anomalies", properties |-> <<>>, required |-> {}],
       [name |-> "get_sec_filings",
        properties |-> << [name |-> "filing_type", default |-> <<"all">>],
                          [name |-> "limit", default |-> <<3>>] >>,
        required |-> {}],
       [name |-> "get_press_releases",
        properties |-> << [name |-> "keyword", default |-> <<"">>],
                          [name |-> "limit", default |-> <<5>>] >>,
        required |-> {}],
       [name |-> "compare_to_competitor",
        properties |-> << [name |-> "competitor", default |-> <<>>],
                          [name |-> "metric", default |-> <<"all">>] >>,
        required |-> {"competitor"}],
       [name |-> "generate_questions",
        properties |-> << [name |-> "findings", default |-> <<>>] >>,
        required |-> {"findings"}] >>

\* a bundle whose optional tables hold more rows than any declared limit
BenchTranscripts ==
    << [TICKER |-> "SNOW", EVENT_TYPE |-> "Earnings Call",
        EVENT_DATE |-> "2025-08-27 00:00:00", SYNOPSIS |-> "AI workloads grew."],
       [TICKER |-> "DDOG", EVENT_TYPE |-> "Earnings Call",
        EVENT_DATE |-> "2025-08-07 00:00:00", SYNOPSIS |-> "Datadog: 12% AI-native."],
       [TICKER |-> "SNOW", EVENT_TYPE |-> "Earnings Call",
        EVENT_DATE |-> "2025-05-21 00:00:00", SYNOPSIS |-> ""],
       [TICKER |-> "MDB", EVENT_TYPE |-> "Investor Day",
        EVENT_DATE |-> "2025-06-04 00:00:00", SYNOPSIS |-> "Atlas pricing held."] >>

BenchFilings ==
    << [FILING_TYPE |-> "10-Q", FILING_DATE |-> "2025-08-29"],
       [FILING_TYPE |-> "8-K", FILING_DATE |-> "2025-08-27"],
       [FILING_TYPE |-> "10-Q", FILING_DATE |-> "2025-05-30"],
       [FILING_TYPE |-> "10-K", FILING_DATE |-> "2025-03-21"] >>

BenchPress ==
    << [RELEASE_DATE |-> "2025-08-27", TITLE |-> "Snowflake Reports Q2 Results",
        SYNOPSIS |-> "Product revenue of $1.09B."],
       [RELEASE_DATE |-> "2025-06-03", TITLE |-> "Snowflake to Acquire Crunchy Data",
        SYNOPSIS |-> ""],
       [RELEASE_DATE |-> "2025-05-21", TITLE |-> "Snowflake Reports Q1 Results",
        SYNOPSIS |-> "Product revenue of $997M."],
       [RELEASE_DATE |-> "2025-02-26", TITLE |-> "Snowflake Reports Q4 Results",
        SYNOPSIS |-> "Product revenue of $943M."],
       [RELEASE_DATE |-> "2025-02-26", TITLE |-> "Snowflake and Microsoft Expand",
        SYNOPSIS |-> "OpenAI models in Cortex."],
       [RELEASE_DATE |-> "2024-11-20", TITLE |-> "Snowflake Reports Q3 Results",
        SYNOPSIS |-> "Product revenue of $900M."] >>

BenchData ==
    [snowflake_metrics |-> SnowTable, peer_financials |-> PeerTable,
     earnings_transcripts |-> BenchTranscripts, analyst_ratings |-> RatingsTable,
     news_snippets |-> NewsTable, sec_filings |-> BenchFilings,
     press_releases |-> BenchPress]

\* every file present and holding its header line only
EmptyData ==
    [snowflake_metrics |-> <<>>, peer_financials |-> <<>>,
     earnings_transcripts |-> <<>>, analyst_ratings |-> <<>>,
     news_snippets |-> <<>>, sec_filings |-> <<>>, press_releases |-> <<>>]

ToolBundles == {BenchData, FullData(ShortSynopsis), EmptyData, CoreData}

\* tool_input dicts: an argument is left out or takes one of the values tried
Arg(key, values) == {<<>>} \cup {key :> v : v \in values}

ToolCalls ==
    {<<"get_snowflake_metrics", m @@ q>> :
        m \in Arg("metric", {"all", "nrr", "growth"}), q \in Arg("quarters", {0, 2, 4})}
    \cup {<<"search_transcripts", k @@ c @@ l>> :
        k \in Arg("keyword", {"", "ai", "churn"}),
        c \in Arg("company", {"all", "snow", "ORCL"}), l \in Arg("limit", {0, 1, 3})}
    \cup {<<"get_analyst_ratings", c>> : c \in Arg("company", {"SNOW", "all", "ORCL"})}
    \cup {<<"get_competitor_news", t>> : t \in Arg("ticker", {"all", "mdb", "ORCL"})}
    \cup {<<"check_anomalies", <<>> >>}
    \cup {<<"get_sec_filings", f @@ l>> :
        f \in Arg("filing_type", {"all", "10-Q", "S-1"}), l \in Arg("limit", {0, 1, 3})}
    \cup {<<"get_press_releases", k @@ l>> :
        k \in Arg("keyword", {"", "results", "churn"}), l \in Arg("limit", {0, 2, 5})}
    \cup {<<"compare_to_competitor", c @@ m>> :
        c \in Arg("competitor", {"googl", "ORCL"}), m \in Arg("metric", {"all"})}
    \cup {<<"generate_questions", f>> : f \in Arg("findings", {"NRR fell"})}
    \cup {<<"lookup_stock", <<>> >>}

\* DataTools.__init__
ToolInit ==
    /\ agent = "none"
    /\ max_turns = 0
    /\ data \in ToolBundles
    /\ pc = "tools"
    /\ turn = 0
    /\ messages = <<>>
    /\ collected_data = <<>>
    /\ tool_calls = <<>>
    /\ tool_results = <<>>
    /\ pos = 0
    /\ synthesis = NoSynthesis
    /\ events = <<>>
    /\ exception = ""
    /\ calls = <<>>
    /\ dispatched = <<>>
    /\ reads = {}
    /\ engine = NoEngine
    /\ outcome = NoOutcome
    /\ analysis = NoAnalysis
    /\ other = NoOther

\* DataTools.execute_tool called once
DataTools_execute_tool ==
    /\ pc = "tools" /\ dispatched = <<>>
    /\ \E call \in ToolCalls :
         \E out \in {execute_tool(data, call[1], call[2])} :
            /\ dispatched' = Append(dispatched, call)
            /\ outcome' = out
            /\ reads' = reads \cup out.reads
            /\ exception' = IF out.raised THEN out.value ELSE ""
    /\ UNCHANGED <<agent, max_turns, data, pc, turn, messages, collected_data,
                   tool_calls, tool_results, pos, synthesis, events, calls, engine,
                   analysis, other>>

ToolNext == DataTools_execute_tool

ToolSpec == ToolInit /\ [][ToolNext]_vars

(***************************************************************************)
(* Properties of one execute_tool call                                      *)
(***************************************************************************)

\* the call placed directly on execute_tool, once it has returned or raised
Called == pc = "tools" /\ dispatched # <<>>
CallName == dispatched[Len(dispatched)][1]
CallInput == dispatched[Len(dispatched)][2]

\* the properties the schema of tool_name declares, <<>> for an unregistered name
PropertiesOf(tool_name) ==
    LET defs == SelectSeq(get_tool_definitions, LAMBDA t : t.name = tool_name)
    IN IF defs = <<>> THEN <<>> ELSE defs[1].properties

\* the arguments the call omitted although the schema declares a default for them
OmittedDefaults ==
    SelectSeq(PropertiesOf(CallName),
              LAMBDA q : q.default # <<>> /\ q.name \notin DOMAIN CallInput)

\* C12: for every registered tool and every optional argument its schema declares
\* a default for, execute_tool with the argument omitted gives exactly what it
\* gives with the declared default passed (same text or same exception, same
\* tables read).
C12_DeclaredDefaultsApplied ==
    Called =>
        \A i \in 1..Len(OmittedDefaults) :
            LET q == OmittedDefaults[i]
            IN execute_tool(data, CallName, (q.name :> q.default[1]) @@ CallInput) = outcome

\* an omitted argument with a declared default, on a bundle where the default
\* decides the result: passing 0 or "ORCL" in its place gives another text
C12_Witness ==
    /\ Called
    /\ ~outcome.raised
    /\ \E i \in 1..Len(OmittedDefaults) :
         LET q == OmittedDefaults[i]
             instead == IF q.name \in {"quarters", "limit"} THEN 0 ELSE "ORCL"
         IN execute_tool(data, CallName, (q.name :> instead) @@ CallInput) # outcome

\* the executors that answer a query with a listing of rows
QueryTools == {"search_transcripts", "get_analyst_ratings", "get_competitor_news",
               "get_sec_filings", "get_press_releases", "compare_to_competitor"}

\* how the listing of each query tool begins, up to and including its first row mark
ListingStart(tool_name, input) ==
    CASE tool_name = "search_transcripts" -> "TRANSCRIPT SEARCH RESULTS:\n["
      [] tool_name = "get_analyst_ratings" ->
           "ANALYST RATINGS FOR " \o Get(input, "company", "SNOW") \o ":\n- "
      [] tool_name = "get_competitor_news" -> "COMPETITOR NEWS:\n["
      [] tool_name = "get_sec_filings" -> "SEC FILINGS:\n- "
      [] tool_name = "get_press_releases" -> "PRESS RELEASES:\n["
      [] tool_name = "compare_to_competitor" ->
           "COMPARISON: SNOWFLAKE vs " \o Upper(Get(input, "competitor", ""))

\* the values of the row filters in use in a call, as the executor receives them
RowFilters(tool_name, input) ==
    CASE tool_name = "search_transcripts" ->
           <<Get(input, "keyword", ""), Get(input, "company", "all")>>
      [] tool_name = "get_analyst_ratings" -> <<Get(input, "company", "SNOW")>>
      [] tool_name = "get_competitor_news" -> <<Get(input, "ticker", "all")>>
      [] tool_name = "get_sec_filings" -> <<Get(input, "filing_type", "all")>>
      [] tool_name = "get_press_releases" -> <<Get(input, "keyword", "")>>
      [] tool_name = "compare_to_competitor" -> <<Get(input, "competitor", "")>>

IsListing(text, tool_name, input) ==
    /\ StartsWith(text, ListingStart(tool_name, input))
    /\ tool_name = "compare_to_competitor" =>
          Contains(text, "\n" \o Upper(Get(input, "competitor", "")) \o " metrics:\n- ")

IsNoResults(text) == StartsWith(text, "No ")

\* the call without its limit argument
WithoutLimit(input) == [k \in DOMAIN input \ {"limit"} |-> input[k]]

\* C13: no query-style executor returns an empty string.  Its result is either a
\* listing holding at least one row, or a "No ... found" text that names the value
\* of every row filter in use (keyword, company, ticker, filing type, competitor).
C13_NoResultsNamesRowFilter ==
    (Called /\ CallName \in QueryTools /\ ~outcome.raised) =>
        /\ outcome.value # ""
        /\ \/ IsListing(outcome.value, CallName, CallInput)
           \/ /\ IsNoResults(outcome.value)
              /\ \A i \in 1..Len(RowFilters(CallName, CallInput)) :
                    Contains(outcome.value, RowFilters(CallName, CallInput)[i])

\* C13 as stated: the "no results" text names the filter that left no rows, the
\* limit included.  When the call has rows without its limit argument, the limit
\* is the filter that left none, and the text is to name its value.
C13_NoResultsNamesLimit ==
    (Called /\ CallName \in QueryTools /\ ~outcome.raised) =>
        /\ C13_NoResultsNamesRowFilter
        /\ ( /\ IsNoResults(outcome.value)
             /\ "limit" \in DOMAIN CallInput
             /\ ~IsNoResults(execute_tool(data, CallName, WithoutLimit(CallInput)).value) )
           => Contains(outcome.value, ToString(CallInput.limit))

\* a filter that matches no row of a table that has rows: the text names it
C13_Witness ==
    /\ Called /\ CallName = "get_sec_filings" /\ ~outcome.raised
    /\ data["sec_filings"] # <<>>
    /\ Get(CallInput, "filing_type", "all") = "S-1"
    /\ outcome.value = "No SEC filings found for type 'S-1'"

(***************************************************************************)
(* The sentinel and the bundle                                              *)
(***************************************************************************)

\* run() is about to handle an invocation of the running agent's own sentinel
SentinelInHand == pc = "execute" /\ tool_calls[pos].name = Sentinel

\* C14: handling a sentinel invocation (generate_questions in the question loop,
\* generate_defense in the defense loop) reads no table of the bundle and runs no
\* data executor: the step leaves the tables read so far and the findings as they
\* were, records no result for the sentinel, and leads to the synthesis.
C14_SentinelNeverTouchesData ==
    [][SentinelInHand =>
          /\ reads' = reads
          /\ data' = data
          /\ collected_data' = collected_data
          /\ tool_results' = tool_results
          /\ pc' = "synthesis"]_vars

\* a sentinel handled after data tools of the same run have read the bundle
C14_Witness ==
    /\ pc = "synthesis"
    /\ reads # {}
    /\ agent = "question" => dispatched[Len(dispatched)][1] = "generate_questions"
    /\ agent = "defense" => \A i \in 1..Len(dispatched) : dispatched[i][1] # "generate_defense"

(***************************************************************************)
(* MetricsEngine as an object: constructed on two tables, then run.         *)
(* Cells hold whole numbers, for which the floating-point arithmetic of the *)
(* code is exact up to the final rounding.                                  *)
(***************************************************************************)

\* the period ends, fiscal quarters and fiscal years of six quarters, latest first
EngineDates == <<20251031, 20250731, 20250430, 20250131, 20241031, 20240731>>
EngineQuarters == <<3, 2, 1, 4, 3, 2>>
EngineYears == <<2026, 2026, 2026, 2025, 2025, 2025>>

\* an own-company table of n quarters, latest first, from three columns of cells;
\* the other monitored columns are flat
SnowOf(n, nrr, fcf, product) ==
    [i \in 1..n |->
        SnowRow(EngineDates[i], EngineQuarters[i], EngineYears[i], product[i], <<100>>,
                <<100>>, nrr[i], <<100>>, fcf[i], <<100>>)]

Flat == <<<<100>>, <<100>>, <<100>>, <<100>>, <<100>>, <<100>>>>

\* a column from its current cell, the four cells of the trailing window, and a
\* cell for the quarter before those
Column(current, window) == <<current>> \o window \o <<<<100>>>>

\* the rows of one peer series, oldest first, from its cells latest first
PeerSeries(company, metric, cells) ==
    [i \in 1..Len(cells) |->
        LET k == Len(cells) + 1 - i
        IN PeerRow(company, metric, cells[k], EngineDates[k], EngineQuarters[k],
                   EngineYears[k])]

PeerOf(googl, amzn) ==
    PeerSeries("GOOGL", "CLOUD_REVENUE", googl)
    \o <<PeerRow("GOOGL", "TOTAL_REVENUE", <<90000>>, 20251031, 3, 2026)>>
    \o PeerSeries("AMZN", "AWS_REVENUE", amzn)
    \o PeerSeries("MSFT", "CLOUD_REVENUE", <<<<300>>, <<1>>, <<1>>, <<1>>, <<100>>>>)

\* current cells and trailing windows of the free-cash-flow column
DeviationCurrents ==
    {NaN, <<-131>>, <<-130>>, <<-120>>, <<-80>>, <<0>>, <<69>>, <<70>>, <<71>>,
     <<79>>, <<80>>, <<81>>, <<100>>, <<150>>}

DeviationWindows ==
    { <<<<100>>, <<100>>, <<100>>, <<100>>>>,
      <<<<90>>, <<110>>, <<95>>, <<105>>>>,
      <<<<101>>, <<100>>, <<100>>, <<100>>>>,
      <<NaN, <<100>>, <<100>>, <<100>>>>,
      <<NaN, NaN, NaN, NaN>>,
      <<<<0>>, <<0>>, <<0>>, <<0>>>>,
      <<<<100>>, <<-100>>, <<50>>, <<-50>>>>,
      <<<<-100>>, <<-100>>, <<-100>>, <<-100>>>> }

\* the cells of a net-revenue-retention span
NrrCells == {NaN, <<-3>>, <<-2>>, <<-1>>, <<0>>, <<1>>}

\* own product revenue: <<current, four quarters back>>
ProductPairs ==
    { <<<<1200>>, <<1000>>>>, <<<<12004>>, <<10000>>>>, <<<<1000>>, <<1000>>>>,
      <<<<900>>, <<1000>>>>, <<NaN, <<1000>>>>, <<<<1000>>, NaN>>, <<<<1000>>, <<0>>>> }

ProductColumn(pair) == <<pair[1], <<1000>>, <<1000>>, <<1000>>, pair[2], <<1000>>>>

\* the series of a tracked competitor, latest first
GooglSeries ==
    { <<<<110>>, <<105>>, <<104>>, <<102>>, <<100>>>>,
      <<<<125>>, <<105>>, <<104>>, <<102>>, <<100>>, <<90>>>>,
      <<<<120>>, <<105>>, <<104>>, <<102>>, <<100>>>>,
      <<<<110>>, <<105>>, <<104>>, <<102>>>>,
      <<<<110>>, <<105>>, <<104>>, <<102>>, <<0>>>>,
      <<NaN, <<105>>, <<104>>, <<102>>, <<100>>>>,
      <<<<110>>, <<105>>, <<104>>, <<102>>, NaN>> }

AmznSeries ==
    { <<<<250>>, <<240>>, <<230>>, <<220>>, <<200>>>>,
      <<<<240>>, <<240>>, <<230>>, <<220>>, <<200>>>>,
      <<<<250>>, <<240>>>>,
      <<>> }

DecliningNrr == <<<<125>>, <<126>>, <<127>>, <<128>>, <<127>>, <<128>>>>

\* the tables an engine is constructed on
EngineInputs ==
    { [snowflake_metrics |-> SnowOf(6, Flat, Column(c, w), Flat),
       peer_financials |-> PeerOf(<<>>, <<>>)] :
         c \in DeviationCurrents, w \in DeviationWindows }
    \cup
    { [snowflake_metrics |-> SnowOf(n, <<a, b, c, e, <<100>>, <<100>>>>, Flat, Flat),
       peer_financials |-> PeerTable] :
         n \in {4, 6}, a \in NrrCells, b \in NrrCells, c \in NrrCells, e \in NrrCells }
    \cup
    { [snowflake_metrics |-> SnowOf(n, DecliningNrr, Column(c, <<<<100>>, <<100>>, <<100>>, <<100>>>>),
                                    ProductColumn(<<<<1200>>, <<1000>>>>)),
       peer_financials |-> PeerOf(g, <<>>)] :
         n \in 0..5, c \in {<<1>>, <<100>>}, g \in GooglSeries }
    \cup
    { [snowflake_metrics |-> SnowOf(6, Flat, Flat, ProductColumn(pr)),
       peer_financials |-> PeerOf(g, a)] :
         pr \in ProductPairs, g \in GooglSeries, a \in AmznSeries }

\* MetricsEngine.__init__ without the sort_values of line 16: the own-company table
\* is kept in the order it was passed in
MetricsEngine_unsorted(snowflake_metrics, peer_financials) ==
    [snow_df |-> snowflake_metrics,
     peer_df |-> peer_financials,
     anomalies |-> <<>>,
     competitive_gaps |-> <<>>]

\* MetricsEngine.__init__
MetricsEngine(snowflake_metrics, peer_financials) ==
    [snow_df |-> SortDesc(snowflake_metrics),
     peer_df |-> peer_financials,
     anomalies |-> <<>>,
     competitive_gaps |-> <<>>]

\* the calls of run_analysis tried on one engine
MaxRuns == 2

EngineInit ==
    /\ agent = "none"
    /\ max_turns = 0
    /\ data \in EngineInputs
    /\ engine = MetricsEngine(data.snowflake_metrics, data.peer_financials)
    /\ pc = "engine"
    /\ turn = 0
    /\ messages = <<>>
    /\ collected_data = <<>>
    /\ tool_calls = <<>>
    /\ tool_results = <<>>
    /\ pos = 0
    /\ synthesis = NoSynthesis
    /\ events = <<>>
    /\ exception = ""
    /\ calls = <<>>
    /\ dispatched = <<>>
    /\ reads = {}
    /\ outcome = NoOutcome
    /\ analysis = NoAnalysis
    /\ other = NoOther

\* MetricsEngine.run_analysis: the three detectors append to the lists of the
\* object, in this order; an exception in one leaves what those before it appended.
\* The dict returned holds the two lists of the object themselves, not copies: the
\* result a caller keeps shows whatever is appended to them later
MetricsEngine_run_analysis ==
    /\ pc = "engine" /\ Len(dispatched) < MaxRuns
    /\ LET found == _detect_anomalies(engine.snow_df)
           nrr == _detect_nrr_decline(engine.snow_df)
           gaps == _detect_competitive_gaps(engine.snow_df, engine.peer_df)
       IN IF _detect_anomalies_raises(engine.snow_df)
          THEN /\ engine' = engine
               /\ outcome' = Raise("KeyError", {})
               /\ exception' = "KeyError"
          ELSE IF nrr.raised
          THEN /\ engine' = [engine EXCEPT !.anomalies = @ \o found]
               /\ outcome' = Raise(nrr.value, {})
               /\ exception' = nrr.value
          ELSE IF _detect_competitive_gaps_raises(engine.snow_df)
          THEN /\ engine' = [engine EXCEPT !.anomalies = @ \o found \o nrr.value]
               /\ outcome' = Raise("KeyError", {})
               /\ exception' = "KeyError"
          ELSE /\ engine' = [engine EXCEPT !.anomalies = @ \o found \o nrr.value,
                                           !.competitive_gaps = @ \o gaps]
               /\ outcome' = Return([anomalies |-> engine.anomalies \o found \o nrr.value,
                                     competitive_gaps |-> engine.competitive_gaps \o gaps],
                                    {})
               /\ exception' = ""
    /\ analysis' = IF analysis = NoAnalysis /\ outcome'.raised THEN NoAnalysis
                   ELSE [anomalies |-> engine'.anomalies,
                         competitive_gaps |-> engine'.competitive_gaps]
    /\ dispatched' = Append(dispatched, <<"run_analysis", <<>> >>)
    /\ UNCHANGED <<agent, max_turns, data, pc, turn, messages, collected_data,
                   tool_calls, tool_results, pos, synthesis, events, calls, reads, other>>

EngineNext == MetricsEngine_run_analysis

EngineSpec == EngineInit /\ [][EngineNext]_vars

\* the engine has run at least once
Analysed == pc = "engine" /\ dispatched # <<>>

(***************************************************************************)
(* Properties of one analysis run                                           *)
(***************************************************************************)

\* a step that is one call of run_analysis
Runs == pc = "engine" /\ dispatched' # dispatched

\* the findings and the gaps the call appended
NewAnomalies == SubSeq(engine'.anomalies, Len(engine.anomalies) + 1, Len(engine'.anomalies))
NewGaps == SubSeq(engine'.competitive_gaps, Len(engine.competitive_gaps) + 1,
                  Len(engine'.competitive_gaps))

\* the findings of the generic deviation rule among those appended, for one column
NewFor(col) == SelectSeq(NewAnomalies, LAMBDA a : a.metric = Title(col))

\* the cell of the latest quarter and the present cells of the four quarters before it
CurrentCell(col) == engine.snow_df[1][col]
TrailingCells(col) == SelectSeq([i \in 1..4 |-> engine.snow_df[i + 1][col]],
                                LAMBDA c : ~IsNa(c))
TrailingSum(col) == SumCells(TrailingCells(col))

\* d = (current - average) / |average| with average = TrailingSum / count, so
\* d = DevNum / DevDen
DevNum(col) == Len(TrailingCells(col)) * CurrentCell(col)[1] - TrailingSum(col)
DevDen(col) == Abs(TrailingSum(col))

\* the rule has what it needs for col: 5 quarters, a current value, an average # 0
Measurable(col) ==
    /\ Len(engine.snow_df) >= 5
    /\ ~IsNa(CurrentCell(col))
    /\ TrailingCells(col) # <<>>
    /\ TrailingSum(col) # 0

\* C15: for each monitored metric with at least 5 quarters of history, a present
\* current value and a present non-zero trailing average, one run produces no
\* finding when d >= -20%, one MEDIUM finding when -30% <= d < -20%, and one HIGH
\* finding when d < -30%.
C15_DeviationThresholds ==
    [][Runs =>
         \A k \in 1..Len(METRICS) :
            LET col == METRICS[k]
            IN Measurable(col) =>
                 /\ 5 * DevNum(col) >= -DevDen(col) => NewFor(col) = <<>>
                 /\ (5 * DevNum(col) < -DevDen(col) /\ 10 * DevNum(col) >= -3 * DevDen(col))
                      => (Len(NewFor(col)) = 1 /\ NewFor(col)[1].threat = "MEDIUM")
                 /\ 10 * DevNum(col) < -3 * DevDen(col)
                      => (Len(NewFor(col)) = 1 /\ NewFor(col)[1].threat = "HIGH")]_vars

\* free cash flow at 70 against a trailing average of 100: d is exactly -30%, and
\* the one run made flagged it MEDIUM
C15_Witness ==
    /\ Analysed /\ Len(dispatched) = 1
    /\ Len(engine.snow_df) >= 5
    /\ engine.snow_df[1]["FCF_IN_MILLIONS"] = <<70>>
    /\ \A i \in 2..5 : engine.snow_df[i]["FCF_IN_MILLIONS"] = <<100>>
    /\ \E i \in 1..Len(engine.anomalies) :
          /\ engine.anomalies[i].metric = "Fcf In Millions"
          /\ engine.anomalies[i].threat = "MEDIUM"

\* the names the generic deviation rule gives its findings
GenericNames == {Title(METRICS[k]) : k \in 1..Len(METRICS)}

\* C16: on an own-metric history of fewer than 5 quarters a run produces no finding
\* of the generic deviation rule and no competitive gap, whatever the values.
C16_ShortHistoryNoFinding ==
    [][(Runs /\ Len(engine.snow_df) < 5) =>
          /\ \A i \in 1..Len(NewAnomalies) : NewAnomalies[i].metric \notin GenericNames
          /\ NewGaps = <<>>
          /\ engine'.competitive_gaps = <<>>]_vars

\* four quarters whose latest free cash flow is 99% under the three before it,
\* with a competitor that has its five periods: analysed, nothing of either kind
C16_Witness ==
    /\ Analysed /\ ~outcome.raised
    /\ Len(engine.snow_df) = 4
    /\ engine.snow_df[1]["FCF_IN_MILLIONS"] = <<1>>
    /\ Len(SelectSeq(engine.peer_df, LAMBDA r : r.COMPANY_ID = "GOOGL"
                                               /\ r.METRIC_NAME = "CLOUD_REVENUE")) >= 5
    /\ outcome.value.competitive_gaps = <<>>
    /\ \A i \in 1..Len(outcome.value.anomalies) :
          outcome.value.anomalies[i].metric \notin GenericNames

\* the net-revenue-retention cells of the 4 most recent quarters, most recent first
NrrSpan == [i \in 1..4 |-> engine.snow_df[i]["NRR_PERCENT"]]

\* v0 < v1 < v2 < v3 with all four present
StrictDecline ==
    /\ \A i \in 1..4 : ~IsNa(NrrSpan[i])
    /\ \A i \in 1..3 : NrrSpan[i][1] < NrrSpan[i + 1][1]

NewNrrFindings == SelectSeq(NewAnomalies, LAMBDA a : a.metric = "Net Revenue Retention")

\* C17: with v0..v3 the net-revenue-retention values of the 4 most recent quarters,
\* one run produces exactly one HIGH finding named "Net Revenue Retention" when
\* all four are present and v0 < v1 < v2 < v3, and no such finding otherwise.
C17_NrrDeclineIffStrict ==
    [][(Runs /\ Len(engine.snow_df) >= 4) =>
          IF StrictDecline
          THEN Len(NewNrrFindings) = 1 /\ NewNrrFindings[1].threat = "HIGH"
          ELSE NewNrrFindings = <<>>]_vars

\* own product revenue now and four quarters back
OwnCurrent == engine.snow_df[1]["PRODUCT_REVENUE_M"]
OwnPrior == engine.snow_df[5]["PRODUCT_REVENUE_M"]

\* the rows of the series of a tracked competitor, in table order
SeriesOf(pair) ==
    SelectSeq(engine.peer_df, LAMBDA r : r.COMPANY_ID = pair[1] /\ r.METRIC_NAME = pair[2])

\* the value of a series n periods before its latest one (period ends are distinct)
ValueBack(rows, n) ==
    LET i == CHOOSE i \in 1..Len(rows) :
                 Cardinality({j \in 1..Len(rows) :
                                 rows[j].PERIOD_END_DATE > rows[i].PERIOD_END_DATE}) = n
    IN rows[i].METRIC_VALUE

\* a gap can be computed for the competitor: own and competitor values present,
\* prior values not zero, five periods of the series
Comparable(pair) ==
    /\ Len(engine.snow_df) >= 5
    /\ ~IsNa(OwnCurrent) /\ ~IsNa(OwnPrior) /\ OwnPrior # <<0>>
    /\ Len(SeriesOf(pair)) >= 5
    /\ ~IsNa(ValueBack(SeriesOf(pair), 0))
    /\ ~IsNa(ValueBack(SeriesOf(pair), 4))
    /\ ValueBack(SeriesOf(pair), 4) # <<0>>

NewGapsFor(pair) == SelectSeq(NewGaps, LAMBDA g : g.competitor = pair[1])

\* growth = 100 * (current - prior) / prior, as numerator and denominator
GrowthNum(current, prior) == 100 * (current[1] - prior[1])
GrowthDen(prior) == prior[1]

\* C18: for each tracked competitor with sufficient history a run that returns
\* reports one record whose growths are the percentage change of the current
\* quarter against the quarter 4 periods back, and whose gap is own growth minus
\* competitor growth (to one decimal); own 20% against 10% gives gap 10.0 and
\* advantage true, against 25% gap -5.0 and advantage false.
C18_GapIsOwnMinusCompetitor ==
    [][(Runs /\ ~outcome'.raised) =>
         \A k \in 1..Len(COMPETITORS) :
            LET pair == COMPETITORS[k]
                comp_current == ValueBack(SeriesOf(pair), 0)
                comp_prior == ValueBack(SeriesOf(pair), 4)
                on == GrowthNum(OwnCurrent, OwnPrior)
                od == GrowthDen(OwnPrior)
                cn == GrowthNum(comp_current, comp_prior)
                cd == GrowthDen(comp_prior)
                rec == NewGapsFor(pair)[1]
            IN Comparable(pair) =>
                 /\ Len(NewGapsFor(pair)) = 1
                 /\ rec.snow_growth = <<RoundTenths(on, od)>>
                 /\ rec.comp_growth = <<RoundTenths(cn, cd)>>
                 /\ rec.gap = <<RoundTenths(on * cd - cn * od, od * cd)>>
                 /\ (OwnCurrent = <<1200>> /\ OwnPrior = <<1000>>
                       /\ comp_current = <<110>> /\ comp_prior = <<100>>)
                      => (rec.gap = <<100>> /\ rec.advantage)
                 /\ (OwnCurrent = <<1200>> /\ OwnPrior = <<1000>>
                       /\ comp_current = <<125>> /\ comp_prior = <<100>>)
                      => (rec.gap = <<-50>> /\ ~rec.advantage)]_vars

\* own growth 20% against a competitor at 25%: gap -5.0, advantage false
C18_Witness ==
    /\ Analysed /\ ~outcome.raised
    /\ \E i \in 1..Len(outcome.value.competitive_gaps) :
          outcome.value.competitive_gaps[i] =
              [competitor |-> "GOOGL", snow_growth |-> <<200>>, comp_growth |-> <<250>>,
               gap |-> <<-50>>, advantage |-> FALSE]

\* C19: in every CompetitiveGap record the advantage field is true exactly when
\* the record's own gap field is greater than 0.
C19_AdvantageIffGapPositive ==
    Analysed =>
        \A i \in 1..Len(engine.competitive_gaps) :
            LET g == engine.competitive_gaps[i]
            IN g.advantage <=> (~IsNa(g.gap) /\ g.gap[1] > 0)

\* the record the engine gives for a competitor when only that competitor's rows
\* are in the peer table
AloneFor(pair) ==
    _detect_competitive_gaps(engine.snow_df,
        SelectSeq(engine.peer_df, LAMBDA r : r.COMPANY_ID = pair[1]))

\* C20: a tracked competitor with fewer than 5 periods of its metric is left out of
\* the gaps of a run without any error; the record of the other competitor is
\* what it is without the first one's rows; a run gives at most one record per
\* tracked competitor and none for anyone else.
C20_ShortCompetitorOmitted ==
    [][(Runs /\ ~outcome'.raised) =>
         /\ \A k \in 1..Len(COMPETITORS) :
               /\ Len(SeriesOf(COMPETITORS[k])) < 5 => NewGapsFor(COMPETITORS[k]) = <<>>
               /\ NewGapsFor(COMPETITORS[k]) = AloneFor(COMPETITORS[k])
               /\ Len(NewGapsFor(COMPETITORS[k])) <= 1
         /\ \A i \in 1..Len(NewGaps) :
               \E k \in 1..Len(COMPETITORS) : NewGaps[i].competitor = COMPETITORS[k][1]]_vars

\* GOOGL with four periods is left out while AMZN, with five, has its record
C20_Witness ==
    /\ Analysed /\ ~outcome.raised
    /\ Len(SelectSeq(engine.peer_df, LAMBDA r : r.COMPANY_ID = "GOOGL"
                                               /\ r.METRIC_NAME = "CLOUD_REVENUE")) = 4
    /\ Len(outcome.value.competitive_gaps) = 1
    /\ outcome.value.competitive_gaps[1].competitor = "AMZN"

(***************************************************************************)
(* Repeated analysis                                                        *)
(***************************************************************************)

\* a step that is the second call of run_analysis on the same object, both
\* calls having returned
SecondRun == Runs /\ Len(dispatched) = 1 /\ ~outcome.raised /\ ~outcome'.raised

\* C21: calling run_analysis twice on unchanged input data yields identical
\* anomaly and competitive-gap lists: same records, same order, same length.
C21_RepeatedAnalysisIdentical ==
    [][SecondRun =>
         /\ outcome'.value.anomalies = outcome.value.anomalies
         /\ outcome'.value.competitive_gaps = outcome.value.competitive_gaps]_vars

(***************************************************************************)
(* Analysis of own-company tables that lack columns or rows                 *)
(***************************************************************************)

\* the columns an own-company table may come without
OptionalColumns ==
    {"FCF_IN_MILLIONS", "NRR_PERCENT", "PRODUCT_REVENUE_M", "FISCAL_QUARTER", "FISCAL_YEAR"}

\* a frame without some of its columns
Without(df, cols) == [i \in 1..Len(df) |-> [c \in (DOMAIN df[i]) \ cols |-> df[i][c]]]

\* tables of 0 to 6 quarters which, complete, give a deviation finding, the
\* decline finding and two gaps, each without some of the optional columns
SchemaInputs ==
    { [snowflake_metrics |->
           Without(SnowOf(n, DecliningNrr,
                          Column(<<1>>, <<<<100>>, <<100>>, <<100>>, <<100>>>>),
                          ProductColumn(<<<<1200>>, <<1000>>>>)), cols),
       peer_financials |->
           PeerOf(<<<<110>>, <<105>>, <<104>>, <<102>>, <<100>>>>,
                  <<<<250>>, <<240>>, <<230>>, <<220>>, <<200>>>>)] :
         n \in 0..6, cols \in SUBSET OptionalColumns }

SchemaInit ==
    /\ agent = "none"
    /\ max_turns = 0
    /\ data \in SchemaInputs
    /\ engine = MetricsEngine(data.snowflake_metrics, data.peer_financials)
    /\ pc = "engine"
    /\ turn = 0
    /\ messages = <<>>
    /\ collected_data = <<>>
    /\ tool_calls = <<>>
    /\ tool_results = <<>>
    /\ pos = 0
    /\ synthesis = NoSynthesis
    /\ events = <<>>
    /\ exception = ""
    /\ calls = <<>>
    /\ dispatched = <<>>
    /\ reads = {}
    /\ outcome = NoOutcome
    /\ analysis = NoAnalysis
    /\ other = NoOther

SchemaSpec == SchemaInit /\ [][EngineNext]_vars

\* the columns the table of the engine came without
Lacking == OptionalColumns \ Columns(engine.snow_df)

\* C22: analysis never raises on a missing monitored column, a missing primary
\* revenue column, missing fiscal quarter/year columns or too few rows: it
\* completes and leaves out the finding category that needed what is missing.
C22_MissingColumnsAbsorbed ==
    Analysed =>
        /\ ~outcome.raised
        /\ outcome.raised \/
           /\ "FCF_IN_MILLIONS" \in Lacking =>
                 \A i \in 1..Len(outcome.value.anomalies) :
                     outcome.value.anomalies[i].metric # Title("FCF_IN_MILLIONS")
           /\ "NRR_PERCENT" \in Lacking =>
                 \A i \in 1..Len(outcome.value.anomalies) :
                     outcome.value.anomalies[i].metric # "Net Revenue Retention"
           /\ "PRODUCT_REVENUE_M" \in Lacking => outcome.value.competitive_gaps = <<>>

\* what the code does absorb: a missing monitored column other than the primary
\* revenue column, and a table too short for the rule that would read the
\* missing column
Absorbed ==
    \/ Lacking \subseteq {"FCF_IN_MILLIONS", "NRR_PERCENT"}
    \/ Len(engine.snow_df) < 4
    \/ Len(engine.snow_df) = 4 /\ (FISCAL_COLUMNS \cap Lacking = {} \/ "NRR_PERCENT" \in Lacking)

C22_RaisesUnlessAbsorbed == Analysed => (outcome.raised <=> ~Absorbed)

(***************************************************************************)
(* The bundle under tool executions and loop runs                           *)
(***************************************************************************)

\* the names of the tools executed so far
ExecutedTools == {dispatched[i][1] : i \in 1..Len(dispatched)}

\* C23: no operation changes the dataset bundle: across every step of a loop run,
\* tool executions and check_anomalies (which constructs and runs the engine)
\* included, every table of the bundle keeps its rows in their order.
C23_BundleUnchanged == [][data' = data]_vars

\* a run has ended after check_anomalies sorted its own copy of the tables: the
\* peer table of the bundle is still oldest first, which the engine's order is not
C23_Witness ==
    /\ pc = "done"
    /\ "check_anomalies" \in ExecutedTools
    /\ {"snowflake_metrics", "peer_financials"} \subseteq reads
    /\ SortDesc(data["peer_financials"]) # data["peer_financials"]

(***************************************************************************)
(* parse_questions (src/app.py): the synthesis text of the question loop    *)
(* is split into one record per marker block.                               *)
(***************************************************************************)

\* bucket_names of line 65 without the entry for "3"
bucket_names_two == ("1" :> "Filings/Press") @@ ("2" :> "Transcripts")

\* line 65
bucket_names ==
    ("1" :> "Filings/Press") @@ ("2" :> "Transcripts") @@ ("3" :> "Analyst Research")

\* q[key] = value
SetItem(q, key, value) == (key :> value) @@ q

\* ScanLine keeping the value a field already has
ScanLine_first_wins(q, line) ==
    LET keep(r, key, value) == IF key \in DOMAIN r THEN r ELSE SetItem(r, key, value)
        bucket == Strip(Split(line, ":")[2])
        q1 == IF Contains(line, "THREAT_LEVEL:")
              THEN keep(q, "threat", Strip(Split(line, ":")[2]))
              ELSE q
        q2 == IF Contains(line, "SOURCE_BUCKET:")
              THEN keep(keep(q1, "source", Get(bucket_names, bucket, bucket)),
                        "bucket", bucket)
              ELSE q1
    IN IF Contains(line, "DATA_POINT:")
       THEN keep(q2, "data_point", Strip(AfterFirst(line, ":")))
       ELSE q2

\* lines 61-69: what one line after the first does to the record
ScanLine(q, line) ==
    LET bucket == Strip(Split(line, ":")[2])
        q1 == IF Contains(line, "THREAT_LEVEL:")
              THEN SetItem(q, "threat", Strip(Split(line, ":")[2]))
              ELSE q
        q2 == IF Contains(line, "SOURCE_BUCKET:")
              THEN SetItem(SetItem(q1, "source", Get(bucket_names, bucket, bucket)),
                           "bucket", bucket)
              ELSE q1
    IN IF Contains(line, "DATA_POINT:")
       THEN SetItem(q2, "data_point", Strip(AfterFirst(line, ":")))
       ELSE q2

\* line 60: for line in lines[1:]
RECURSIVE ScanLines(_, _, _)
ScanLines(q, lines, i) ==
    IF i > Len(lines) THEN q ELSE ScanLines(ScanLine(q, lines[i]), lines, i + 1)

\* lines 56-69: the record of one block
BlockRecord(block) ==
    \* block.strip().split('\n') has at least one element
    LET lines == Split(Strip(block), "\n")
    IN ScanLines("question" :> Strip(lines[1]), lines, 2)

\* parse_questions keeping one record of equal ones
parse_questions_dedup(response) ==
    LET blocks == Tail(Split(response, "QUESTION:"))
        records == [i \in 1..Len(blocks) |-> BlockRecord(blocks[i])]
    IN Unique(SelectSeq(records, LAMBDA q : q["question"] # ""))

\* parse_questions without the [1:] of line 54: what stands before the first marker
\* is taken for a block too
parse_questions_keeps_preamble(response) ==
    LET blocks == Split(response, "QUESTION:")
        records == [i \in 1..Len(blocks) |-> BlockRecord(blocks[i])]
    IN SelectSeq(records, LAMBDA q : q["question"] # "")

\* parse_questions, lines 50-74
parse_questions(response) ==
    LET blocks == Tail(Split(response, "QUESTION:"))
        records == [i \in 1..Len(blocks) |-> BlockRecord(blocks[i])]
    IN SelectSeq(records, LAMBDA q : q["question"] # "")

(***************************************************************************)
(* The texts parsed.  A text is written from a preamble and blocks; a       *)
(* block from its first line and the lines after it; a line after the       *)
(* first carries one field marker and its value, or none.                   *)
(***************************************************************************)
Line(text, field, value) == [text |-> text, field |-> field, value |-> value]

ThreatLine(level) == Line("THREAT_LEVEL: " \o level, "threat", level)
BucketLine(code) == Line("SOURCE_BUCKET: " \o code, "bucket", code)
PointLine(point) == Line("DATA_POINT: " \o point, "data_point", point)
Padded(line) == Line("  " \o line.text \o "  ", line.field, line.value)
Note == Line("(see the latest filing)", "none", "")
BlankLine == Line("", "none", "")

MetaLines ==
    {ThreatLine("HIGH"), ThreatLine("LOW"),
     BucketLine("1"), BucketLine("2"), BucketLine("3"), Padded(BucketLine("7")),
     BucketLine("Transcripts"),
     PointLine("FCF: -3%"), PointLine("NRR 125%"),
     Note, BlankLine}

\* the first lines: two questions and two blank ones
FirstLines == {" Why did FCF fall?", " Is NRR slowing?", "", "  "}

\* the lines after the first: every sequence of at most 2, and some longer ones
LineSeqs ==
    {<<>>} \cup {<<a>> : a \in MetaLines} \cup {<<a, b>> : a \in MetaLines, b \in MetaLines}
    \cup { <<ThreatLine("LOW"), Note, ThreatLine("HIGH")>>,
           <<BucketLine("1"), BlankLine, Padded(BucketLine("7")), Note>>,
           <<PointLine("FCF: -3%"), ThreatLine("HIGH"), PointLine("NRR 125%")>>,
           <<BucketLine("2"), ThreatLine("HIGH"), PointLine("FCF: -3%"), ThreatLine("LOW"),
             BucketLine("3")>> }

Block(first, lines) == [first |-> first, lines |-> lines]

\* the blocks put together in texts of several blocks
SimpleBlocks ==
    { Block(" Why did FCF fall?",
            <<BucketLine("1"), ThreatLine("HIGH"), PointLine("FCF: -3%")>>),
      Block(" Is NRR slowing?", <<ThreatLine("LOW"), Padded(BucketLine("7"))>>),
      Block(" Is NRR slowing?", <<>>),
      Block("", <<Note, ThreatLine("HIGH")>>),
      Block(" ", <<>>) }

Preambles == {"", "Here are the questions:\n\n", "Ranked by THREAT_LEVEL: HIGH first\n"}

ParserInputs ==
    { [preamble |-> p, blocks |-> bs] :
        p \in Preambles,
        bs \in {<<>>}
               \cup {<<Block(f, ls)>> : f \in FirstLines, ls \in LineSeqs}
               \cup {<<a, b>> : a \in SimpleBlocks, b \in SimpleBlocks}
               \cup {<<a, b, c>> : a \in SimpleBlocks, b \in SimpleBlocks,
                                    c \in SimpleBlocks} }

\* the text of a block, as the format asked of the model lays it out
BlockText(b) ==
    "QUESTION:" \o b.first \o "\n"
    \o Join("", [i \in 1..Len(b.lines) |-> b.lines[i].text \o "\n"]) \o "\n"

ResponseText(in) ==
    in.preamble \o Join("", [i \in 1..Len(in.blocks) |-> BlockText(in.blocks[i])])

\* app.py:156-160: the terminal event of the question loop is at hand
ParserInit ==
    /\ agent = "none"
    /\ max_turns = 0
    /\ data = <<>>
    /\ pc = "parser"
    /\ turn = 0
    /\ messages = <<>>
    /\ collected_data = <<>>
    /\ tool_calls = <<>>
    /\ tool_results = <<>>
    /\ pos = 0
    /\ synthesis = NoSynthesis
    /\ \E in \in ParserInputs, type \in {"questions", "complete"} :
          events = <<[type |-> type, content |-> ResponseText(in)]>>
    /\ exception = ""
    /\ calls = <<>>
    /\ dispatched = <<>>
    /\ reads = {}
    /\ engine = NoEngine
    /\ outcome = NoOutcome
    /\ analysis = NoAnalysis
    /\ other = NoOther

\* app.py:159: st.session_state.questions = parse_questions(event['content'])
App_parse_questions ==
    /\ pc = "parser"
    /\ outcome' = Return(parse_questions(events[Len(events)].content), {})
    /\ pc' = "parsed"
    /\ UNCHANGED <<agent, max_turns, data, turn, messages, collected_data, tool_calls,
                   tool_results, pos, synthesis, events, exception, calls, dispatched,
                   reads, engine, analysis, other>>

ParserNext == App_parse_questions

ParserSpec == ParserInit /\ [][ParserNext]_vars

(***************************************************************************)
(* Properties of parse_questions                                            *)
(***************************************************************************)

\* the text has been parsed
Parsed == pc = "parsed"

\* the records parse_questions returned
Records == outcome.value

\* what the text parsed was written from
Written == CHOOSE in \in ParserInputs : ResponseText(in) = events[1].content

\* every block of the text has a first line that is not blank
WellFormed(in) == \A i \in 1..Len(in.blocks) : Strip(in.blocks[i].first) # ""

\* the records of each block parsed as a text of its own, one after the other
RECURSIVE EachAlone(_)
EachAlone(blocks) ==
    IF blocks = <<>> THEN <<>>
    ELSE parse_questions(BlockText(Head(blocks))) \o EachAlone(Tail(blocks))

\* C24: parse_questions returns one record per retained block, in the order of the
\* blocks in the text, neither re-sorted nor de-duplicated: the records are those
\* of each block taken alone, one after the other; blocks with a question on
\* their first line give one record each, with that question, in that order.
C24_RecordsInBlockOrder ==
    Parsed =>
        LET in == Written
        IN /\ Records = EachAlone(in.blocks)
           /\ WellFormed(in) =>
                 /\ Len(Records) = Len(in.blocks)
                 /\ \A i \in 1..Len(Records) :
                       Records[i]["question"] = Strip(in.blocks[i].first)

\* three blocks of which the first and the last are the same: three records, the
\* first and the last identical, the second another
C24_Witness ==
    /\ Parsed
    /\ Len(Records) = 3
    /\ Records[1] = Records[3]
    /\ Records[1] # Records[2]
    /\ Records[1]["question"] = "Why did FCF fall?"
    /\ Records[2]["question"] = "Is NRR slowing?"

\* the first line of the block, trimmed, is blank
BlankFirst(b) == Strip(b.first) = ""

\* the texts of the lines after the first lines of the blocks, trimmed
LaterLines(in) ==
    UNION { {Strip(in.blocks[i].lines[k].text) : k \in 1..Len(in.blocks[i].lines)} :
              i \in 1..Len(in.blocks) }

\* C25: a block whose first line, trimmed, is blank is dropped entirely, whatever
\* its later lines carry: the records are those of the other blocks, and no later
\* line of a block is the question of a record.
C25_BlankFirstLineDropped ==
    Parsed =>
        LET in == Written
        IN /\ Records = EachAlone(SelectSeq(in.blocks, LAMBDA b : ~BlankFirst(b)))
           /\ \A i \in 1..Len(Records) : Records[i]["question"] \notin LaterLines(in)

\* what the code drops: a block with nothing but white space in it
AllBlank(b) == BlankFirst(b) /\ \A k \in 1..Len(b.lines) : Strip(b.lines[k].text) = ""

C25_AllBlankBlockDropped ==
    Parsed =>
        Records = EachAlone(SelectSeq(Written.blocks, LAMBDA b : ~AllBlank(b)))

\* the block a record of a well-formed text comes from has lines of the field
HasField(b, field) == \E k \in 1..Len(b.lines) : b.lines[k].field = field

\* the value on the last line of the block that carries the field
LastValue(b, field) ==
    b.lines[CHOOSE k \in 1..Len(b.lines) :
                /\ b.lines[k].field = field
                /\ \A m \in (k + 1)..Len(b.lines) : b.lines[m].field # field].value

\* C26: the source-bucket code is translated through a table of three entries,
\* "1" to "Filings/Press", "2" to "Transcripts", "3" to "Analyst Research"; any
\* other code is the source label as it stands.  A record has a source label
\* exactly when it has a code, and the code is the one written in the block.
C26_BucketLabel ==
    Parsed =>
        /\ \A i \in 1..Len(Records) :
              LET q == Records[i]
              IN /\ "source" \in DOMAIN q <=> "bucket" \in DOMAIN q
                 /\ "bucket" \in DOMAIN q =>
                       q["source"] = CASE q["bucket"] = "1" -> "Filings/Press"
                                       [] q["bucket"] = "2" -> "Transcripts"
                                       [] q["bucket"] = "3" -> "Analyst Research"
                                       [] OTHER -> q["bucket"]
        /\ WellFormed(Written) =>
              \A i \in 1..Len(Records) :
                  LET b == Written.blocks[i]
                  IN IF HasField(b, "bucket")
                     THEN Records[i]["bucket"] = LastValue(b, "bucket")
                     ELSE "bucket" \notin DOMAIN Records[i]

\* one text gave a record with code "1" and its label and a record with the
\* code "7", which is its own label
C26_Witness ==
    /\ Parsed
    /\ \E i \in 1..Len(Records), j \in 1..Len(Records) :
          /\ "bucket" \in DOMAIN Records[i] /\ "bucket" \in DOMAIN Records[j]
          /\ Records[i]["bucket"] = "1" /\ Records[i]["source"] = "Filings/Press"
          /\ Records[j]["bucket"] = "7" /\ Records[j]["source"] = "7"

\* C27: when a field occurs on several lines of a block, the record holds the value
\* of the last of them; a line with none of the three markers changes nothing:
\* the record of a block is its question and, for each field some line carries,
\* the value of the last line carrying it, and nothing else.
C27_LastOccurrenceWins ==
    (Parsed /\ WellFormed(Written)) =>
        \A i \in 1..Len(Records) :
            LET b == Written.blocks[i]
                q == Records[i]
            IN /\ DOMAIN q = {"question"}
                             \cup (IF HasField(b, "threat") THEN {"threat"} ELSE {})
                             \cup (IF HasField(b, "bucket") THEN {"source", "bucket"} ELSE {})
                             \cup (IF HasField(b, "data_point") THEN {"data_point"} ELSE {})
               /\ q["question"] = Strip(b.first)
               /\ HasField(b, "threat") => q["threat"] = LastValue(b, "threat")
               /\ HasField(b, "bucket") => q["bucket"] = LastValue(b, "bucket")
               /\ HasField(b, "data_point") => q["data_point"] = LastValue(b, "data_point")

\* a block with THREAT_LEVEL: LOW, a free line, then THREAT_LEVEL: HIGH gave HIGH
C27_Witness ==
    /\ Parsed
    /\ Written.blocks = <<Block(" Why did FCF fall?",
                                <<ThreatLine("LOW"), Note, ThreatLine("HIGH")>>)>>
    /\ Records = <<[question |-> "Why did FCF fall?", threat |-> "HIGH"]>>

(***************************************************************************)
(* Two invocations of run() over one bundle.  Each call of run() has its    *)
(* own messages, collected_data and turn (agent.py:50-54, 239-243) and its  *)
(* own agent object (app.py:137-141); the bundle is the only thing the two  *)
(* have in common.  One invocation takes steps while the locals of the      *)
(* other are kept in other; control passes from one to the other between    *)
(* any two steps.                                                           *)
(***************************************************************************)

\* the state of the invocation taking steps
Locals ==
    [agent |-> agent, max_turns |-> max_turns, pc |-> pc, turn |-> turn,
     messages |-> messages, collected_data |-> collected_data, tool_calls |-> tool_calls,
     tool_results |-> tool_results, pos |-> pos, synthesis |-> synthesis,
     events |-> events, exception |-> exception, calls |-> calls,
     dispatched |-> dispatched, reads |-> reads]

\* the state of an invocation of run() at its start
InitialLocals(kind) ==
    [agent |-> kind,
     max_turns |-> IF kind = "question" THEN QuestionMaxTurns ELSE DefenseMaxTurns,
     pc |-> "turn", turn |-> 0,
     messages |->
         << [role |-> "user",
             content |-> IF kind = "question"
                         THEN "Research Snowflake's data and generate 5 tough analyst questions."
                         ELSE "Research and defend against this question: " \o Question] >>,
     collected_data |-> <<>>, tool_calls |-> <<>>, tool_results |-> <<>>, pos |-> 0,
     synthesis |-> NoSynthesis, events |-> <<>>, exception |-> "", calls |-> <<>>,
     dispatched |-> <<>>, reads |-> {}]

\* the bundles two invocations are run over
PairData == {FullData(ShortSynopsis), CoreData}

PairInit ==
    /\ data \in PairData
    /\ \E first \in {"question", "defense"}, second \in {"question", "defense"} :
          /\ agent = InitialLocals(first).agent
          /\ max_turns = InitialLocals(first).max_turns
          /\ pc = InitialLocals(first).pc
          /\ turn = InitialLocals(first).turn
          /\ messages = InitialLocals(first).messages
          /\ collected_data = InitialLocals(first).collected_data
          /\ tool_calls = InitialLocals(first).tool_calls
          /\ tool_results = InitialLocals(first).tool_results
          /\ pos = InitialLocals(first).pos
          /\ synthesis = InitialLocals(first).synthesis
          /\ events = InitialLocals(first).events
          /\ exception = InitialLocals(first).exception
          /\ calls = InitialLocals(first).calls
          /\ dispatched = InitialLocals(first).dispatched
          /\ reads = InitialLocals(first).reads
          /\ other = InitialLocals(second)
    /\ engine = NoEngine
    /\ outcome = NoOutcome
    /\ analysis = NoAnalysis

\* Loop_switch with one collected_data list for both invocations
Loop_switch_shared_findings ==
    /\ other # NoOther
    /\ other' = Locals
    /\ agent' = other.agent
    /\ max_turns' = other.max_turns
    /\ pc' = other.pc
    /\ turn' = other.turn
    /\ messages' = other.messages
    /\ tool_calls' = other.tool_calls
    /\ tool_results' = other.tool_results
    /\ pos' = other.pos
    /\ synthesis' = other.synthesis
    /\ events' = other.events
    /\ exception' = other.exception
    /\ calls' = other.calls
    /\ dispatched' = other.dispatched
    /\ reads' = other.reads
    /\ UNCHANGED <<collected_data, data, engine, outcome, analysis>>

\* control passes to the other invocation: the one that took steps keeps its
\* locals, the other goes on from its own
Loop_switch ==
    /\ other # NoOther
    /\ other' = Locals
    /\ agent' = other.agent
    /\ max_turns' = other.max_turns
    /\ pc' = other.pc
    /\ turn' = other.turn
    /\ messages' = other.messages
    /\ collected_data' = other.collected_data
    /\ tool_calls' = other.tool_calls
    /\ tool_results' = other.tool_results
    /\ pos' = other.pos
    /\ synthesis' = other.synthesis
    /\ events' = other.events
    /\ exception' = other.exception
    /\ calls' = other.calls
    /\ dispatched' = other.dispatched
    /\ reads' = other.reads
    /\ UNCHANGED <<data, engine, outcome, analysis>>

\* the tool names of the turn responses given to two invocations: no tool, one
\* data tool, the invocation's own sentinel and, in the first turn, two tools
PairScripts(kind, first) ==
    { <<>>, <<"check_anomalies">>,
      IF kind = "question" THEN <<"generate_questions">>
      ELSE <<"generate_defense", "get_sec_filings">> }
    \cup (IF first THEN {<<"search_transcripts", "lookup_stock">>} ELSE {})

Scripted ==
    \A i \in 1..Len(messages) :
        messages[i].role = "assistant" =>
            LET uses == ToolUses(messages[i].content)
            IN [k \in 1..Len(uses) |-> uses[k].name] \in PairScripts(agent, i = 2)

PairNext == (Next \/ Loop_switch) /\ Scripted'

PairSpec == PairInit /\ [][PairNext]_vars

(***************************************************************************)
(* Properties of two interleaved invocations                                *)
(***************************************************************************)

\* the findings an invocation has from the tool calls it placed itself: one entry
\* for every call that returned something other than the question sentinel's text
RECURSIVE OwnFindings(_, _)
OwnFindings(l, n) ==
    IF n = 0 THEN <<>>
    ELSE \* the result of the n-th call, computed on the bundle as it is now
         LET out == execute_tool(data, l.dispatched[n][1], l.dispatched[n][2])
         IN OwnFindings(l, n - 1)
            \o (IF out.raised \/ (l.agent = "question" /\ StartsWith(out.value, Marker))
                THEN <<>>
                ELSE <<"[" \o l.dispatched[n][1] \o "]:\n" \o out.value>>)

\* the turn calls an invocation placed
TurnCallsOf(l) == SelectSeq(l.calls, LAMBDA c : c.kind = "turn")

\* an invocation is in a state of its own making: its findings are those of its
\* own tool calls, in order; it yielded one tool_result event for each of them;
\* its conversation has the first message and two more for each turn completed,
\* and its k-th turn call sent the 2k - 1 messages it had then
OwnState(l) ==
    /\ l.collected_data = OwnFindings(l, Len(l.dispatched))
    /\ Len(SelectSeq(l.events, LAMBDA e : e.type = "tool_result")) = Len(l.collected_data)
    /\ Len(l.messages) \in {2 * l.turn + 1, 2 * l.turn + 2}
    /\ l.messages[1] = InitialLocals(l.agent).messages[1]
    /\ \A k \in 1..Len(TurnCallsOf(l)) : TurnCallsOf(l)[k].sent = 2 * k - 1
    /\ l.turn <= l.max_turns

\* C28: two invocations interleaved in any order over the same bundle do not
\* interfere: a step of one leaves the messages, turn, findings and events of the
\* other as they were, passing control changes neither, and each invocation is
\* at all times in a state made by its own calls alone, as in a run of its own.
C28_NoInterference ==
    /\ [](OwnState(Locals) /\ OwnState(other))
    /\ [][\/ other' = other
          \/ other' = Locals /\ Locals' = other]_vars

\* both invocations are in the middle of their second turn, each with findings
\* of its own, and the bundle is the one they started from
C28_Witness ==
    /\ other # NoOther
    /\ agent = "question" /\ other.agent = "defense"
    /\ turn = 1 /\ other.turn = 1
    /\ pc = "execute" /\ other.pc = "tool_call"
    /\ Len(collected_data) = 2 /\ Len(other.collected_data) = 1
    /\ events # other.events

(***************************************************************************)
(* get_snowflake_metrics and the order of the own-company table             *)
(***************************************************************************)

\* the n rows of a frame with the latest period ends
MostRecent(df, n) == DfHead(SortDesc(df), n)

\* C29: get_snowflake_metrics with quarters = n returns the n most recent quarters
\* of the own-company table, which the loader keeps latest first: its text is the
\* one it gives on a table holding only those n quarters.
C29_MostRecentQuarters ==
    (Called /\ CallName = "get_snowflake_metrics" /\ HasTable(data, "snowflake_metrics")) =>
        LET n == Get(CallInput, "quarters", 4)
            metric == Get(CallInput, "metric", "all")
        IN outcome =
               _get_snowflake_metrics(
                   [data EXCEPT !["snowflake_metrics"] = MostRecent(@, n)], metric, n)

\* what the call returns instead: the n rows with the oldest period ends
C29_OldestQuarters ==
    (Called /\ CallName = "get_snowflake_metrics" /\ HasTable(data, "snowflake_metrics")) =>
        LET n == Get(CallInput, "quarters", 4)
            metric == Get(CallInput, "metric", "all")
            df == data["snowflake_metrics"]
        IN outcome =
               _get_snowflake_metrics(
                   [data EXCEPT !["snowflake_metrics"] =
                       SelectSeq(df, LAMBDA r : r \notin {MostRecent(df, Len(df) - n)[k] :
                                                          k \in 1..(Len(df) - n)})],
                   metric, n)

(***************************************************************************)
(* The result of run_analysis its caller keeps (app.py:41)                  *)
(***************************************************************************)

\* C30: findings are produced per run and never changed afterwards: a call of
\* run_analysis on an engine that has already returned a result appends no
\* finding and no gap a second time, and leaves the result the caller kept from
\* the first call as it was.
C30_FindingsNeverChanged ==
    [][(Runs /\ analysis # NoAnalysis) =>
         /\ engine'.anomalies = engine.anomalies
         /\ engine'.competitive_gaps = engine.competitive_gaps
         /\ analysis' = analysis]_vars

\* what happens instead: the second call appends the findings and gaps of the
\* first once more, and the result kept from the first call shows them
C30_FindingsDoubled ==
    [][(Runs /\ Len(dispatched) = 1 /\ analysis # NoAnalysis /\ ~outcome'.raised) =>
         /\ engine'.anomalies = engine.anomalies \o engine.anomalies
         /\ engine'.competitive_gaps = engine.competitive_gaps \o engine.competitive_gaps
         /\ analysis' = outcome'.value]_vars

(***************************************************************************)
(* Zero denominators in the three detectors                                 *)
(***************************************************************************)

\* a tracked competitor's series has five periods and a value of zero 4 periods back
ZeroPrior(pair) ==
    /\ Len(SeriesOf(pair)) >= 5
    /\ ValueBack(SeriesOf(pair), 4) = <<0>>

\* C31: zero denominators are absorbed and never fail an analysis: no run raises;
\* a zero trailing average skips that metric, a zero own prior-year revenue yields
\* no gaps, a zero competitor prior-year value omits that competitor, and a
\* net-revenue-retention span v0 < v1 < v2 < v3 with v3 = 0 does not raise.
C31_ZeroDenominatorsAbsorbed ==
    [][Runs =>
         /\ ~outcome'.raised
         /\ \A k \in 1..Len(METRICS) :
               (Len(engine.snow_df) >= 5 /\ TrailingCells(METRICS[k]) # <<>>
                  /\ TrailingSum(METRICS[k]) = 0) => NewFor(METRICS[k]) = <<>>
         /\ (Len(engine.snow_df) >= 5 /\ OwnPrior = <<0>>) => NewGaps = <<>>
         /\ \A k \in 1..Len(COMPETITORS) :
               ZeroPrior(COMPETITORS[k]) => NewGapsFor(COMPETITORS[k]) = <<>>]_vars

\* the three guarded divisions behave as stated in every run that returns, and a
\* run raises only on a strictly declining span that ends in v3 = 0
C31_OnlyNrrDivisionRaises ==
    [][Runs =>
         /\ outcome'.raised <=> (Len(engine.snow_df) >= 4 /\ StrictDecline /\ NrrSpan[4] = <<0>>)
         /\ outcome'.raised => outcome'.value = "ZeroDivisionError"
         /\ \A k \in 1..Len(METRICS) :
               (Len(engine.snow_df) >= 5 /\ TrailingCells(METRICS[k]) # <<>>
                  /\ TrailingSum(METRICS[k]) = 0) => NewFor(METRICS[k]) = <<>>
         /\ (Len(engine.snow_df) >= 5 /\ OwnPrior = <<0>>) => NewGaps = <<>>
         /\ \A k \in 1..Len(COMPETITORS) :
               ZeroPrior(COMPETITORS[k]) => NewGapsFor(COMPETITORS[k]) = <<>>]_vars

(***************************************************************************)
(* The last permitted turn                                                  *)
(***************************************************************************)

\* the model has answered the max_turns-th turn call
LastTurnAnswered == Cardinality(AssistantAt) = max_turns

\* the invocations of the answer to the last turn call placed
LastUses == ToolUses(messages[LastAssistant].content)

\* C32: the turn budget is checked only between turns: when the response to the
\* max_turns-th turn call invokes the sentinel, the run still places the
\* synthesis call and ends with a final-result event, not with an error event;
\* when that response holds no tool invocation, the run ends with a complete
\* event.
C32_LastTurnStillConcludes ==
    (Ended /\ LastTurnAnswered) =>
        /\ FirstSentinel(LastUses) # 0 =>
              /\ Len(CallsOf("synthesis")) = 1
              /\ events # <<>>
              /\ events[Len(events)].type = FinalType
              /\ EventsOf("error") = <<>>
        /\ LastUses = <<>> =>
              /\ events # <<>>
              /\ events[Len(events)].type = "complete"
              /\ EventsOf("error") = <<>>

\* the same for the runs that end by returning; the error event is given only
\* after a last response that invokes tools and no sentinel
C32_BudgetCheckedBetweenTurns ==
    (pc = "done" /\ LastTurnAnswered) =>
        /\ FirstSentinel(LastUses) # 0 =>
              /\ Len(CallsOf("synthesis")) = 1
              /\ events[Len(events)].type = FinalType
              /\ EventsOf("error") = <<>>
        /\ LastUses = <<>> =>
              /\ events[Len(events)].type = "complete"
              /\ EventsOf("error") = <<>>
        /\ (LastUses # <<>> /\ FirstSentinel(LastUses) = 0) =>
              events[Len(events)] = [type |-> "error", content |-> "Max turns reached"]

\* a sentinel in the answer to the last permitted turn call, and a final result
C32_LastTurnFinalResult ==
    /\ pc = "done" /\ LastTurnAnswered
    /\ FirstSentinel(LastUses) # 0
    /\ events[Len(events)].type = FinalType

(***************************************************************************)
(* The consecutive-decline rule beside the generic deviation rule           *)
(***************************************************************************)

\* the place of a generic finding's metric among the monitored metrics
MetricIndex(name) == CHOOSE k \in 1..Len(METRICS) : Title(METRICS[k]) = name

\* the findings of the generic deviation rule among those a run appended
NewGeneric == SelectSeq(NewAnomalies, LAMBDA a : a.metric \in GenericNames)

\* C33: the consecutive-decline rule is evaluated independently of the generic
\* deviation rule: with 4 quarters of history, too few for the generic rule, it
\* still gives its finding on a strict decline; its finding is there or not
\* whether or not the generic rule has one for net revenue retention; and the
\* anomalies of a run are the generic findings in monitored-metric order followed
\* by the consecutive-decline finding, which is the list a new engine returns.
C33_DeclineRuleIndependent ==
    [][(Runs /\ ~outcome'.raised) =>
         /\ NewAnomalies = NewGeneric \o NewNrrFindings
         /\ \A i \in 1..Len(NewGeneric) : \A j \in 1..Len(NewGeneric) :
               i < j => MetricIndex(NewGeneric[i].metric) < MetricIndex(NewGeneric[j].metric)
         /\ Len(NewNrrFindings) <= 1
         /\ Len(engine.snow_df) >= 4 =>
               (Len(NewNrrFindings) = 1 <=> StrictDecline)
         /\ (Len(engine.snow_df) = 4 /\ StrictDecline) =>
               (NewGeneric = <<>> /\ Len(NewAnomalies) = 1)
         /\ Len(dispatched) = 0 => outcome'.value.anomalies = NewAnomalies]_vars

\* one run on six quarters gave a generic finding for net revenue retention and,
\* after it, the consecutive-decline finding
C33_Witness ==
    /\ Analysed /\ Len(dispatched) = 1 /\ ~outcome.raised
    /\ Len(outcome.value.anomalies) = 2
    /\ outcome.value.anomalies[1].metric = "Nrr Percent"
    /\ outcome.value.anomalies[2].metric = "Net Revenue Retention"

\* one run on four quarters gave the consecutive-decline finding alone
C33_FourQuarters ==
    /\ Analysed /\ Len(dispatched) = 1 /\ ~outcome.raised
    /\ Len(engine.snow_df) = 4
    /\ Len(outcome.value.anomalies) = 1
    /\ outcome.value.anomalies[1].metric = "Net Revenue Retention"

(***************************************************************************)
(* compare_to_competitor and the order of the own-company table             *)
(***************************************************************************)

\* the call compared the own company with a competitor that has rows, on an
\* own-company table with rows held latest first
Compared ==
    /\ Called /\ CallName = "compare_to_competitor"
    /\ ~outcome.raised
    /\ StartsWith(outcome.value, "COMPARISON: SNOWFLAKE vs ")
    /\ data["snowflake_metrics"] # <<>>
    /\ data["snowflake_metrics"] = SortDesc(data["snowflake_metrics"])

\* the lines under "SNOWFLAKE (latest)" for one row of the own-company table
LatestLines(row) ==
    "SNOWFLAKE (latest):\n"
    \o "- Revenue: $" \o CellText(row.TOTAL_REVENUE_M) \o "M\n"
    \o "- NRR: " \o CellText(row.NRR_PERCENT) \o "%\n"

\* C34: compare_to_competitor reports as "SNOWFLAKE (latest)" the revenue and NRR
\* of the most recent quarter of the own-company table, the table being held in
\* period-descending (latest first) order.
C34_LatestQuarterReported ==
    Compared =>
        Contains(outcome.value, LatestLines(MostRecent(data["snowflake_metrics"], 1)[1]))

\* what the call reports instead: the quarter with the oldest period end
C34_OldestQuarterReported ==
    Compared =>
        LET df == SortDesc(data["snowflake_metrics"])
        IN Contains(outcome.value, LatestLines(df[Len(df)]))

(***************************************************************************)
(* The conversation a turn call sends                                       *)
(***************************************************************************)

\* the message run() starts the conversation with
InitialMessage ==
    [role |-> "user",
     content |-> IF agent = "question"
                 THEN "Research Snowflake's data and generate 5 tough analyst questions."
                 ELSE "Research and defend against this question: " \o Question]

\* a step that places a turn call; messages is the conversation it sends
PlacesTurnCall == calls' # calls /\ calls'[Len(calls')].kind = "turn"

\* the entries of the message at position i that answer the invocation id
EntriesFor(msgs, i, id) ==
    {j \in 1..Len(msgs[i].content) : msgs[i].content[j].tool_use_id = id}

WellFormedConversation(msgs) ==
    /\ msgs # <<>>
    /\ msgs[1] = InitialMessage
    /\ \A i \in 1..Len(msgs) :
          msgs[i].role = IF i % 2 = 1 THEN "user" ELSE "assistant"
    /\ msgs[Len(msgs)].role = "user"
    /\ \A i \in 1..Len(msgs) :
          msgs[i].role = "assistant" =>
              \A k \in 1..Len(ToolUses(msgs[i].content)) :
                  /\ i + 1 <= Len(msgs)
                  /\ msgs[i + 1].role = "user"
                  /\ Cardinality(EntriesFor(msgs, i + 1, ToolUses(msgs[i].content)[k].id)) = 1

\* C35: at every model turn call the conversation sent is well formed: it starts
\* with the initial user message, roles strictly alternate user/assistant, it ends
\* with a user message, and every tool invocation identifier of an assistant
\* message has exactly one tool-result entry with that identifier in the user
\* message that follows it.
C35_ConversationWellFormed ==
    [][PlacesTurnCall =>
         /\ WellFormedConversation(messages)
         /\ calls'[Len(calls')].sent = Len(messages)]_vars

\* a third turn call has been placed, on a conversation of five messages whose
\* first response invoked two tools and got both results back in one message
C35_Witness ==
    /\ Len(CallsOf("turn")) >= 3
    /\ calls[3] = TurnCall(SubSeq(messages, 1, 5))
    /\ Len(ToolUses(messages[2].content)) = 2
    /\ Len(messages[3].content) = 2
    /\ messages[3].content[1].tool_use_id = ToolUses(messages[2].content)[1].id
    /\ messages[3].content[2].tool_use_id = ToolUses(messages[2].content)[2].id

(***************************************************************************)
(* The events of a run                                                      *)
(***************************************************************************)

\* the run has returned: its generator is exhausted without an exception
Completed == pc = "done"

\* the event at position i shows the result of the invocation announced just before it
ResultOfAnnounced(i) ==
    /\ i > 1
    /\ events[i - 1].type = "tool_call"
    /\ events[i].content =
          Preview(execute_tool(data, events[i - 1].tool, events[i - 1].input).value)

\* C36: every completed run has emitted exactly one terminal event (complete,
\* final result or error) and it is the last event of the run; every event before
\* it is a tool_call or tool_result event; each tool_result event comes
\* immediately after the tool_call event of the same invocation; a final-result
\* event comes immediately after the tool_call event of the sentinel.
C36_EventOrder ==
    /\ Completed =>
          /\ events # <<>>
          /\ events[Len(events)].type \in TerminalTypes
          /\ Cardinality({i \in 1..Len(events) : events[i].type \in TerminalTypes}) = 1
    /\ \A i \in 1..Len(events) :
          /\ events[i].type \in TerminalTypes => (i = Len(events) /\ Completed)
          /\ events[i].type \notin TerminalTypes => events[i].type \in {"tool_call", "tool_result"}
          /\ events[i].type = "tool_result" => ResultOfAnnounced(i)
          /\ events[i].type \in {"questions", "defense"} =>
                /\ events[i].type = FinalType
                /\ i > 1
                /\ events[i - 1].type = "tool_call"
                /\ events[i - 1].tool = Sentinel

\* a completed run of six events: two invocations announced and answered, then the
\* sentinel announced, then the final result
C36_Witness ==
    /\ Completed
    /\ Len(events) = 6
    /\ events[1].type = "tool_call" /\ events[2].type = "tool_result"
    /\ events[3].type = "tool_call" /\ events[4].type = "tool_result"
    /\ events[5].type = "tool_call" /\ events[5].tool = Sentinel
    /\ events[6].type = FinalType

(***************************************************************************)
(* The way into synthesis                                                   *)
(***************************************************************************)

\* a step that handles the invocation in hand
Handles == pc = "execute" /\ pc' # "execute"

\* the loop is researching: announcing or executing an invocation, closing a turn,
\* or about to place a turn call
Researching == {"turn", "tool_call", "execute", "follow_up"}

\* the name the other variant gives its sentinel
OtherSentinel == IF agent = "question" THEN "generate_defense" ELSE "generate_questions"

\* C37: the synthesis step is entered only through the variant's own sentinel: a
\* step enters it, and a synthesis call is placed, only for an invocation of
\* generate_questions in the question loop and of generate_defense in the
\* defense loop; every other invocation that gives a result (a data tool, an
\* unknown name, the other variant's sentinel name) is recorded as a tool result
\* and leaves the loop researching; no other invocation ever enters synthesis.
C37_SynthesisOnlyBySentinel ==
    [][/\ (pc' = "synthesis" /\ pc # "synthesis") =>
             (Handles /\ tool_calls[pos].name = Sentinel)
       /\ synthesis' # synthesis => (Handles /\ tool_calls[pos].name = Sentinel)
       /\ (calls' # calls /\ calls'[Len(calls')].kind = "synthesis") =>
             (pc = "synthesis" /\ tool_calls[pos].name = Sentinel)
       /\ (Handles /\ tool_calls[pos].name # Sentinel) =>
             /\ pc' # "synthesis"
             /\ synthesis' = NoSynthesis
             /\ pc' # "raised" =>
                   /\ pc' \in Researching
                   /\ Len(tool_results') = Len(tool_results) + 1
                   /\ tool_results'[Len(tool_results')].tool_use_id = tool_calls[pos].id
                   /\ events'[Len(events')].type = "tool_result"]_vars

\* the other variant's sentinel name and an unknown name have been handled as
\* ordinary invocations, and the loop is still researching
C37_Witness ==
    /\ pc \in Researching
    /\ synthesis = NoSynthesis
    /\ \E i \in 1..Len(dispatched) : dispatched[i][1] = OtherSentinel
    /\ \E i \in 1..Len(dispatched) : dispatched[i][1] = "lookup_stock"
    /\ Len(collected_data) = Len(dispatched)

(***************************************************************************)
(* Analysis of tables whose rows come in any order                          *)
(***************************************************************************)

\* tables with findings of every kind, rows latest first for the own company and
\* oldest first per series for the peers: six, five and four quarters
PermBases ==
    { [snowflake_metrics |-> SnowOf(6, DecliningNrr,
                                    Column(<<70>>, <<<<100>>, <<110>>, <<90>>, <<100>>>>),
                                    <<<<1200>>, <<1150>>, <<1100>>, <<1050>>, <<1000>>, <<950>>>>),
       peer_financials |-> PeerSeries("GOOGL", "CLOUD_REVENUE",
                                      <<<<110>>, <<105>>, <<104>>, <<102>>, <<100>>>>)
                           \o PeerSeries("AMZN", "AWS_REVENUE",
                                         <<<<250>>, <<240>>, <<230>>, <<220>>, <<200>>, <<190>>>>)],
      [snowflake_metrics |-> SnowOf(5, DecliningNrr,
                                    Column(<<60>>, <<<<100>>, <<110>>, <<90>>, <<100>>>>),
                                    <<<<900>>, <<1150>>, <<1100>>, <<1050>>, <<1000>>>>),
       peer_financials |-> PeerSeries("AMZN", "AWS_REVENUE",
                                      <<<<250>>, <<240>>, <<230>>, <<220>>, <<200>>>>)
                           \o PeerSeries("GOOGL", "CLOUD_REVENUE",
                                         <<<<125>>, <<105>>, <<104>>, <<102>>, <<100>>>>)],
      [snowflake_metrics |-> SnowOf(4, DecliningNrr, Flat, Flat),
       peer_financials |-> PeerSeries("GOOGL", "CLOUD_REVENUE",
                                      <<<<110>>, <<105>>, <<104>>, <<102>>, <<100>>>>)] }

\* the rows of a frame in the order f gives their positions
Shuffled(df, f) == [i \in 1..Len(df) |-> df[f[i]]]

\* orders of the n rows of a peer table: as they are, reversed, rotated by two, and
\* the rows at odd places before those at even places
PeerOrders(n) ==
    { [i \in 1..n |-> i],
      [i \in 1..n |-> n + 1 - i],
      [i \in 1..n |-> ((i + 1) % n) + 1],
      [i \in 1..n |-> IF 2 * i - 1 <= n THEN 2 * i - 1 ELSE 2 * (i - (n + 1) \div 2)] }

\* every order of the own-company rows, with some orders of the peer rows
PermInputs ==
    UNION { { [snowflake_metrics |-> Shuffled(b.snowflake_metrics, f),
               peer_financials |-> Shuffled(b.peer_financials, g)] :
                 f \in Permutations(1..Len(b.snowflake_metrics)),
                 g \in PeerOrders(Len(b.peer_financials)) } : b \in PermBases }

PermInit ==
    /\ agent = "none"
    /\ max_turns = 0
    /\ data \in PermInputs
    /\ engine = MetricsEngine(data.snowflake_metrics, data.peer_financials)
    /\ pc = "engine"
    /\ turn = 0
    /\ messages = <<>>
    /\ collected_data = <<>>
    /\ tool_calls = <<>>
    /\ tool_results = <<>>
    /\ pos = 0
    /\ synthesis = NoSynthesis
    /\ events = <<>>
    /\ exception = ""
    /\ calls = <<>>
    /\ dispatched = <<>>
    /\ reads = {}
    /\ outcome = NoOutcome
    /\ analysis = NoAnalysis
    /\ other = NoOther

PermSpec == PermInit /\ [][EngineNext]_vars

\* two frames hold the same rows
SameRows(a, b) ==
    /\ Len(a) = Len(b)
    /\ {a[i] : i \in 1..Len(a)} = {b[i] : i \in 1..Len(b)}

\* the tables the engine's tables are a reordering of
Baseline ==
    CHOOSE b \in PermBases :
        /\ SameRows(b.snowflake_metrics, data.snowflake_metrics)
        /\ SameRows(b.peer_financials, data.peer_financials)

\* C38: the result of analysis does not depend on the row order of its inputs:
\* with period-end dates distinct per series, the first run of an engine built on
\* any reordering of the rows returns the anomaly and gap lists that an engine
\* built on the rows in their original order returns, and the tables passed in are
\* left in the order they came in.
C38_RowOrderIrrelevant ==
    [][(Runs /\ Len(dispatched) = 0) =>
         /\ outcome' = run_analysis(Baseline.snowflake_metrics, Baseline.peer_financials)
         /\ data' = data]_vars

\* an own-company table passed in oldest first and a reordered peer table, analysed:
\* findings of both rules and a gap for each competitor
C38_Witness ==
    /\ Analysed /\ Len(dispatched) = 1 /\ ~outcome.raised
    /\ Len(data.snowflake_metrics) = 6
    /\ \A i \in 1..5 :
          data.snowflake_metrics[i].PERIOD_END_DATE < data.snowflake_metrics[i + 1].PERIOD_END_DATE
    /\ data.peer_financials # Baseline.peer_financials
    /\ Len(outcome.value.anomalies) = 2
    /\ Len(outcome.value.competitive_gaps) = 2

(***************************************************************************)
(* parse_questions and what stands before the first marker                  *)
(***************************************************************************)

\* the text parsed
ParsedText == events[1].content

\* the places in s where sub starts
OccurrencesOf(s, sub) ==
    {i \in 1..(Len(s) - Len(sub) + 1) : SubSeq(s, i, i + Len(sub) - 1) = sub}

\* C39: parse_questions discards all text before the first marker: the records are
\* those of the same text without its preamble; it returns an empty list for a
\* text that contains no marker; and the number of records never exceeds the
\* number of marker occurrences in the text.
C39_PreambleDiscarded ==
    Parsed =>
        /\ Records = parse_questions(ResponseText([Written EXCEPT !.preamble = ""]))
        /\ OccurrencesOf(ParsedText, "QUESTION:") = {} => Records = <<>>
        /\ Len(Records) <= Cardinality(OccurrencesOf(ParsedText, "QUESTION:"))

\* a text whose preamble holds a field marker and whose one block has none: one
\* record, with the question only
C39_Witness ==
    /\ Parsed
    /\ Contains(Written.preamble, "THREAT_LEVEL:")
    /\ Len(Written.blocks) = 1
    /\ Records = <<"question" :> "Why did FCF fall?">>

\* a text without any marker, not empty: no record
C39_NoMarker ==
    /\ Parsed
    /\ ParsedText # ""
    /\ OccurrencesOf(ParsedText, "QUESTION:") = {}
    /\ Records = <<>>

(***************************************************************************)
(* The two variants side by side.  QuestionAgent.run is taken to its end;   *)
(* DefenseAgent.run is then run with the same max_turns over the same       *)
(* bundle and is given, call for call, what the question run was given,     *)
(* with the names of the two sentinels exchanged.                           *)
(***************************************************************************)

\* max_turns of both agents in the comparison
TwinMaxTurns == 3

\* the turn responses of the comparison: for each response the one with the
\* sentinels exchanged is there too
TwinResponses ==
    << <<Text("Nothing further to ask.")>>,
       <<Text("Checking anomalies."), Use("check_anomalies", <<>>)>>,
       <<Use("search_transcripts", [company |-> "snow", limit |-> 2]),
         Use("lookup_stock", [symbol |-> "SNOW"])>>,
       <<Use("generate_questions", <<>>)>>,
       <<Use("generate_defense", <<>>)>>,
       <<Use("get_analyst_ratings", <<>>),
         Use("generate_questions", [findings |-> "FCF fell"]),
         Use("get_press_releases", [keyword |-> "results"])>>,
       <<Use("get_analyst_ratings", <<>>),
         Use("generate_defense", [talking_points |-> "FCF fell"]),
         Use("get_press_releases", [keyword |-> "results"])>>,
       <<Use("check_anomalies", <<>>), Use("generate_defense", <<>>),
         Use("generate_questions", <<>>)>>,
       <<Use("check_anomalies", <<>>), Use("generate_questions", <<>>),
         Use("generate_defense", <<>>)>> >>

\* a response block with the sentinel of one variant put for that of the other
SwapSentinel(block) ==
    IF block.type # "tool_use" THEN block
    ELSE IF block.name = "generate_questions"
    THEN [block EXCEPT !.name = "generate_defense",
                       !.input = IF "findings" \in DOMAIN block.input
                                 THEN "talking_points" :> block.input["findings"]
                                 ELSE <<>>]
    ELSE IF block.name = "generate_defense"
    THEN [block EXCEPT !.name = "generate_questions",
                       !.input = IF "talking_points" \in DOMAIN block.input
                                 THEN "findings" :> block.input["talking_points"]
                                 ELSE <<>>]
    ELSE block

Mapped(content) == [i \in 1..Len(content) |-> SwapSentinel(content[i])]

TwinInit ==
    /\ data \in PairData
    /\ agent = "question"
    /\ max_turns = TwinMaxTurns
    /\ pc = InitialLocals("question").pc
    /\ turn = InitialLocals("question").turn
    /\ messages = InitialLocals("question").messages
    /\ collected_data = InitialLocals("question").collected_data
    /\ tool_calls = InitialLocals("question").tool_calls
    /\ tool_results = InitialLocals("question").tool_results
    /\ pos = InitialLocals("question").pos
    /\ synthesis = InitialLocals("question").synthesis
    /\ events = InitialLocals("question").events
    /\ exception = InitialLocals("question").exception
    /\ calls = InitialLocals("question").calls
    /\ dispatched = InitialLocals("question").dispatched
    /\ reads = InitialLocals("question").reads
    /\ other = [InitialLocals("defense") EXCEPT !.max_turns = TwinMaxTurns]
    /\ engine = NoEngine
    /\ outcome = NoOutcome
    /\ analysis = NoAnalysis

\* the question run has ended; the defense run starts
Twin_handover ==
    /\ agent = "question" /\ Ended
    /\ Loop_switch

\* the defense run is given what the question run was given: the response to its
\* k-th turn call is that to the k-th turn call of the question run with the
\* sentinels exchanged, and its n-th model call raises exactly if that of the
\* question run did; calls the question run never placed are answered freely.
\* It constrains the four steps in which the defense run places a model call.
Mirrored ==
    agent = "defense" =>
        /\ \A i \in 1..Len(messages) :
              (messages[i].role = "assistant" /\ i <= Len(other.messages)
                 /\ other.messages[i].role = "assistant") =>
                    messages[i].content = Mapped(other.messages[i].content)
        /\ (calls # <<>> /\ Len(calls) <= Len(other.calls)) =>
              ((exception = "APIConnectionError" /\ pc = "raised") <=>
                  (other.exception = "APIConnectionError" /\ Len(calls) = Len(other.calls)))

TwinNext ==
    \/ QuestionAgent_turn_on(TwinResponses)
    \/ QuestionAgent_turn_raises
    \/ QuestionAgent_tool_call
    \/ QuestionAgent_execute
    \/ QuestionAgent__generate_final_questions
    \/ QuestionAgent__generate_final_questions_raises
    \/ QuestionAgent_follow_up
    \/ QuestionAgent_max_turns
    \/ Twin_handover
    \/ DefenseAgent_turn_on(TwinResponses) /\ Mirrored'
    \/ DefenseAgent_turn_raises /\ Mirrored'
    \/ DefenseAgent_tool_call
    \/ DefenseAgent_sentinel
    \/ DefenseAgent_execute
    \/ DefenseAgent__generate_final_defense /\ Mirrored'
    \/ DefenseAgent__generate_final_defense_raises /\ Mirrored'
    \/ DefenseAgent_follow_up
    \/ DefenseAgent_max_turns

TwinSpec == TwinInit /\ [][TwinNext]_vars

(***************************************************************************)
(* Properties of the two variants side by side                              *)
(***************************************************************************)

\* both runs have ended: the question run's locals are kept in other
BothEnded == agent = "defense" /\ Ended /\ other.agent = "question"

\* the kind of an event: its type, the two final-result types being one kind
KindOf(e) == IF e.type \in {"questions", "defense"} THEN "final" ELSE e.type
EventKinds(evs) == [i \in 1..Len(evs) |-> KindOf(evs[i])]

\* the model calls by kind, with the length of the conversation a turn call sent
CallShape(cs) ==
    [i \in 1..Len(cs) |-> IF cs[i].kind = "turn" THEN <<"turn", cs[i].sent>> ELSE <<"synthesis">>]

\* the shape of a conversation: the role of each message, the number of blocks of a
\* response and which of them invoke tools, the identifiers answered by a
\* follow-up message
MessageShape(msg, first) ==
    IF first THEN <<msg.role>>
    ELSE IF msg.role = "assistant"
    THEN <<msg.role, [i \in 1..Len(msg.content) |-> msg.content[i].type]>>
    ELSE <<msg.role, [i \in 1..Len(msg.content) |-> msg.content[i].tool_use_id]>>

ConversationShape(msgs) == [i \in 1..Len(msgs) |-> MessageShape(msgs[i], i = 1)]

\* C40: the two loop variants run the same state machine: given the same sequence
\* of model responses with the sentinel names exchanged, and the same max_turns,
\* DefenseAgent.run ends as QuestionAgent.run does, with the same sequence of
\* event kinds, the same model calls in number and kind, and a conversation of the
\* same shape.
C40_SameStateMachine ==
    BothEnded =>
        /\ pc = other.pc
        /\ exception = other.exception
        /\ EventKinds(events) = EventKinds(other.events)
        /\ Len(calls) = Len(other.calls)
        /\ CallShape(calls) = CallShape(other.calls)
        /\ turn = other.turn
        /\ ConversationShape(messages) = ConversationShape(other.messages)
        /\ Len(collected_data) = Len(other.collected_data)

\* both runs ended with a final result in their second turn, after a first turn of
\* two invocations; in the second turn each was given the other's sentinel before
\* its own
C40_Witness ==
    /\ BothEnded /\ pc = "done"
    /\ EventKinds(events) = <<"tool_call", "tool_result", "tool_call", "tool_result",
                              "tool_call", "tool_result", "tool_call", "tool_result",
                              "tool_call", "final">>
    /\ events[Len(events)].type = "defense"
    /\ other.events[Len(other.events)].type = "questions"
    /\ Len(calls) = 3

\* both runs used up their turns and ended with the error event
C40_BothExhausted ==
    /\ BothEnded
    /\ Len(CallsOf("turn")) = TwinMaxTurns
    /\ events[Len(events)].type = "error"
    /\ other.events[Len(other.events)].type = "error"
====
